---- MODULE Spec2Model ----
(***************************************************************************)
(* Model of the dog-adoption aggregation pipeline:                         *)
(*   src/dog_adoption/main.py  DogAdoptionBot.scrape_all_sources,          *)
(*                             _deduplicate_dogs, _score_dogs_concurrently *)
(*   src/dog_adoption/core.py  CoreMixin cache utilities,                  *)
(*                             score_dog_with_gemini, _call_gemini_api     *)
(*                                                                         *)
(* The specifications share the variables:                                 *)
(*   Spec      one run of scrape_all_sources (collection pool, dedup,      *)
(*             scoring pool, ranking); FairSpec adds the scheduling        *)
(*             fairness of the thread pools.                               *)
(*   SiteSpec  the same run on the listings of one site whose dogs share   *)
(*             detail pages or have none.                                  *)
(*   CacheSpec client threads calling the cache getters and setters, at    *)
(*             the granularity of cache_lock and of the file operations.   *)
(*   CrashSpec the setter and _save_cache with the process dying at any    *)
(*             step and the next process loading what the disk holds.      *)
(*                                                                         *)
(* Left out: the updated_at timestamps of cache entries (int(time.time()), *)
(* never read by the code), the scraped_date of a listing, log output.     *)
(***************************************************************************)
EXTENDS Integers, Sequences, FiniteSets, TLC

\* ---------------------------------------------------------------- bounds
\* number of registered collectors (the code registers seven)
NumSources == 2
\* longest listing list one collector returns
MaxOut == 2
\* number of client threads of CacheSpec
NumThreads == 2
\* most hits, and most misses, one collector counts
MaxHits == 1
\* most tasks submitted to one pool (more than the pool has threads)
MaxTasks == 11

\* ThreadPoolExecutor(max_workers=10), both pools
max_workers == 10

Sources == 1..NumSources
Threads == 1..NumThreads

VARIABLES
    outputs,      \* per collector: what its scrape_* call does (fixed for the run)
    apiKey,       \* os.environ["API_KEY"] is set
    prompt,       \* content of prompt.txt, or NoFile
    loaded,       \* the cache as _load_cache returned it at construction
    cache,        \* self.cache
    cacheFile,    \* content of dog_data/cache.json
    tmpFile,      \* dog_data/cache.json.tmp: absent, partly written or complete
    pc,           \* position of scrape_all_sources
    pending,      \* collector futures not yet completed
    failed,       \* sources whose exception was logged
    all_dogs,     \* all_dogs of scrape_all_sources
    unique_dogs,  \* unique_dogs, in the deduplicator's order
    wpc,          \* per scoring future: position of score_dog_with_gemini
    result,       \* per scoring future: its outcome
    apiCalls,     \* per scoring future: invocations of _call_gemini_api
    remoteCalls,  \* per scoring future: invocations of model.generate_content
    ranked,       \* the list scrape_all_sources returns
    cache_lock,   \* holder of self.cache_lock, 0 when free
    tpc,          \* CacheSpec: per client thread, position in its cache call
    targ,         \* CacheSpec: per client thread, the detail_url of the getter call
                  \*   it is in, "" when it is in none
    emptyCall,    \* CacheSpec: the step just taken was a set_cached_description call
                  \*   with an empty url or an empty text
    tret,         \* CacheSpec: the step just taken was a get_cached_description call,
                  \*   with its url and the text it returned
    lastSet,      \* CacheSpec: per url, the text of the last set_cached_description
                  \*   call that had a url and a text
    repeatSet,    \* CacheSpec: a set_cached_description call passed the text that
                  \*   was already stored
    fetch,        \* FetchSpec: the get_page call: its url, the loop variable attempt,
                  \*   what each session.get did, the delays slept, what it returned
    pool,         \* PoolSpec: a ThreadPoolExecutor: tasks submitted and their states
    cache_stats,  \* self.cache_stats
    lastScore     \* per url and fingerprint, the score of the last set_cached_score
                  \*   call that had a url and a fingerprint

vars == <<outputs, apiKey, prompt, loaded, cache, cacheFile, tmpFile, pc, pending, failed,
          all_dogs, unique_dogs, wpc, result, apiCalls, remoteCalls, ranked,
          cache_lock, tpc, targ, emptyCall, tret, lastSet, repeatSet,
          fetch, pool, cache_stats, lastScore>>

pipeVars == <<outputs, apiKey, prompt, loaded, pc, pending, failed, all_dogs, unique_dogs,
              wpc, result, apiCalls, remoteCalls, ranked>>

threadVars == <<cache_lock, tpc, targ, emptyCall, tret, lastSet, repeatSet>>

auxVars == <<fetch, pool, cache_stats, lastScore>>

\* ------------------------------------------------------------ value domains
Urls == {"", "/a", "/b"}
NoFile == "<no prompt.txt>"
Hashes == {"hA", "hB", "hD", "hE"}

\* str.lower() on the names the collectors produce
Lower(s) ==
    CASE s = "Rex" -> "rex"
      [] s = "Max" -> "max"
      [] s = "Bo"  -> "bo"
      [] OTHER     -> s

\* a listing as a collector returns it: no score key yet
Listing(n, u, d, s) ==
    [name |-> n, detail_url |-> u, full_description |-> d, source |-> s,
     scored |-> FALSE, score |-> 0, score_details |-> <<>>]

\* the listings collector s can find on its site
Shapes(s) ==
    IF s % 2 = 1
    THEN {Listing("Rex", "/a", "calm", s), Listing("Max", "/b", "", s)}
    ELSE {Listing("rex", "/a", "", s), Listing("Bo", "", "wild", s)}

\* the lists of at most n listings of S
RECURSIVE SeqsUpTo(_, _)
SeqsUpTo(S, n) ==
    IF n = 0 THEN {<<>>}
    ELSE LET shorter == SeqsUpTo(S, n - 1)
         IN shorter \cup {Append(q, x) : q \in {r \in shorter : Len(r) = n - 1}, x \in S}

\* what a scrape_* call can do: return a list, or raise after finding a listing
Outcomes(s) ==
    {[raises |-> FALSE, dogs |-> q] : q \in SeqsUpTo(Shapes(s), MaxOut)}
    \cup {[raises |-> TRUE, dogs |-> <<Listing("Rex", "/a", "calm", s)>>]}

\* ------------------------------------------------------------------- cache
NoDescription == [present |-> FALSE, text |-> "", name |-> ""]
NoScore == [present |-> FALSE, score |-> 0, score_details |-> <<>>]
EmptyCache ==
    [descriptions |-> [u \in Urls |-> NoDescription],
     scores |-> [u \in Urls |-> [h \in Hashes |-> NoScore]]]

GeminiDetails(score) == <<"Gemini Score", score, 100>>

\* cache.json as an earlier run left it
InitCaches ==
    {EmptyCache,
     [EmptyCache EXCEPT
        !.descriptions["/a"] = [present |-> TRUE, text |-> "calm", name |-> "Rex"],
        !.descriptions["/b"] = [present |-> TRUE, text |-> "shy", name |-> ""],
        !.scores["/a"]["hA"] = [present |-> TRUE, score |-> 33,
                               score_details |-> GeminiDetails(33)]]}

get_cached_description(c, detail_url) ==
    IF detail_url = "" THEN ""
    ELSE LET entry == c.descriptions[detail_url]
         IN IF entry.present THEN entry.text ELSE ""

get_cached_name(c, detail_url) ==
    IF detail_url = "" THEN ""
    ELSE LET entry == c.descriptions[detail_url]
         IN IF entry.present THEN entry.name ELSE ""

\* variant: only the url is tested
SetDescriptionReturnsEarly_UrlOnly(detail_url, text) == detail_url = ""

\* "if not detail_url or not text: return" of set_cached_description
SetDescriptionReturnsEarly(detail_url, text) == detail_url = "" \/ text = ""

\* variant: an existing entry is kept (setdefault instead of assignment)
set_cached_description_KeepExisting(c, detail_url, text, name) ==
    IF detail_url = "" \/ text = "" \/ c.descriptions[detail_url].present THEN c
    ELSE [c EXCEPT !.descriptions[detail_url] =
                       [present |-> TRUE, text |-> text, name |-> name]]

\* the in-memory effect of set_cached_description (the dict assignment)
set_cached_description(c, detail_url, text, name) ==
    IF SetDescriptionReturnsEarly(detail_url, text) THEN c
    ELSE [c EXCEPT !.descriptions[detail_url] =
                       [present |-> TRUE, text |-> text, name |-> name]]

\* variant: the entry of any fingerprint is returned
get_cached_score_AnyHash(c, detail_url, prompt_hash) ==
    IF detail_url = "" \/ prompt_hash = "" THEN NoScore
    ELSE IF \E h \in Hashes : c.scores[detail_url][h].present
    THEN c.scores[detail_url][CHOOSE h \in Hashes : c.scores[detail_url][h].present]
    ELSE NoScore

\* variant: the lookup never finds an entry
get_cached_score_Miss(c, detail_url, prompt_hash) == NoScore

get_cached_score(c, detail_url, prompt_hash) ==
    IF detail_url = "" \/ prompt_hash = "" THEN NoScore
    ELSE c.scores[detail_url][prompt_hash]

\* variant: the mapping of the url is replaced by one that holds the new entry only
set_cached_score_ReplacesUrl(c, detail_url, prompt_hash, score, score_details) ==
    IF detail_url = "" \/ prompt_hash = "" THEN c
    ELSE [c EXCEPT !.scores[detail_url] =
                       [h \in Hashes |->
                           IF h = prompt_hash
                           THEN [present |-> TRUE, score |-> score,
                                 score_details |-> score_details]
                           ELSE NoScore]]

\* the in-memory effect of set_cached_score
set_cached_score(c, detail_url, prompt_hash, score, score_details) ==
    IF detail_url = "" \/ prompt_hash = "" THEN c
    ELSE [c EXCEPT !.scores[detail_url][prompt_hash] =
                       [present |-> TRUE, score |-> score,
                        score_details |-> score_details]]

\* hashlib.md5 of the template, injective on the templates of the model
_compute_prompt_hash(p) ==
    CASE p = NoFile -> "hD"
      [] p = "tplA" -> "hA"
      [] p = "tplB" -> "hB"
      [] OTHER      -> "hE"

\* a file of dog_data: absent, not a JSON document (cut short or damaged), or a
\* complete document with the top-level keys it has and their mappings
BothKeys == {"descriptions", "scores"}
NoTmp == [state |-> "absent", keys |-> {}, doc |-> EmptyCache]
PartialFile == [state |-> "partial", keys |-> {}, doc |-> EmptyCache]
\* json.dump(self.cache, f): self.cache has both keys since _load_cache
CompleteFile(c) == [state |-> "complete", keys |-> BothKeys, doc |-> c]

FullCache == CHOOSE c \in InitCaches : c # EmptyCache

\* what dog_data/cache.json can be when the process starts
DiskFiles ==
    {NoTmp, PartialFile}
    \cup {CompleteFile(c) : c \in InitCaches}
    \cup {[state |-> "complete", keys |-> {"scores"},
           doc |-> [FullCache EXCEPT !.descriptions = EmptyCache.descriptions]],
          [state |-> "complete", keys |-> {"descriptions"},
           doc |-> [FullCache EXCEPT !.scores = EmptyCache.scores]]}

\* variant: the exception of open or json.load leaves _load_cache
_load_cache_NoCatch(f) ==
    IF f.state = "absent" THEN [raised |-> FALSE, data |-> EmptyCache]
    ELSE IF f.state = "partial" THEN [raised |-> TRUE, data |-> EmptyCache]
    ELSE [raised |-> FALSE,
          data |-> [descriptions |-> IF "descriptions" \in f.keys
                                     THEN f.doc.descriptions
                                     ELSE EmptyCache.descriptions,
                    scores |-> IF "scores" \in f.keys
                               THEN f.doc.scores ELSE EmptyCache.scores]]

\* _load_cache: whether it raised, and the dict it returns
_load_cache(f) ==
    IF f.state = "absent" THEN [raised |-> FALSE, data |-> EmptyCache]
    \* open or json.load raised: logged, a new cache is created
    ELSE IF f.state = "partial" THEN [raised |-> FALSE, data |-> EmptyCache]
    ELSE [raised |-> FALSE,
          data |-> [descriptions |-> IF "descriptions" \in f.keys
                                     THEN f.doc.descriptions
                                     ELSE EmptyCache.descriptions,
                    scores |-> IF "scores" \in f.keys
                               THEN f.doc.scores ELSE EmptyCache.scores]]

NoRet == [valid |-> FALSE, url |-> "", text |-> ""]

\* no get_page call is under way
NoFetch == [ret |-> "idle", url |-> "", attempt |-> 0, outcomes |-> <<>>,
            sleeps |-> <<>>]
\* no executor has been created
NoPool == [tasks |-> 0, submitted |-> 0, state |-> <<>>]
\* the collectors of scrape_all_sources that count their cache hits
StatCollectors == <<"larchedekala", "rememberme", "happytogether">>
StatSources == {StatCollectors[k] : k \in 1..Len(StatCollectors)}
\* self.cache_stats = {}
NoStats == [s \in StatSources |-> [present |-> FALSE, cached |-> 0, fetched |-> 0]]
\* no set_cached_score call has written anything
NoScoreWritten == [u \in Urls |-> [h \in Hashes |-> NoScore]]

\* the parts of the state that a run of the pipeline leaves alone
AuxInit ==
    /\ fetch = NoFetch
    /\ pool = NoPool
    /\ cache_stats = NoStats
    /\ lastScore = NoScoreWritten

Init ==
    /\ outputs \in [Sources -> UNION {Outcomes(s) : s \in Sources}]
    /\ \A s \in Sources : outputs[s] \in Outcomes(s)
    /\ apiKey \in BOOLEAN
    /\ prompt \in {"tplA", "tplB"}
    /\ loaded \in InitCaches
    \* with nothing cached the two templates behave alike
    /\ loaded = EmptyCache => prompt = "tplA"
    /\ cache = loaded
    /\ cacheFile = CompleteFile(loaded)
    /\ tmpFile = NoTmp
    /\ pc = "collecting"
    /\ pending = Sources
    /\ failed = {}
    /\ all_dogs = <<>>
    /\ unique_dogs = <<>>
    /\ wpc = <<>>
    /\ result = <<>>
    /\ apiCalls = <<>>
    /\ remoteCalls = <<>>
    /\ ranked = <<>>
    /\ cache_lock = 0
    /\ tpc = [t \in Threads |-> "idle"]
    /\ targ = [t \in Threads |-> ""]
    /\ emptyCall = FALSE
    /\ tret = NoRet
    /\ lastSet = [u \in Urls |-> get_cached_description(cache, u)]
    /\ repeatSet = FALSE
    /\ AuxInit

\* ------------------------------------------------------------ pure helpers
\* variant: the key keeps the case of the name
dog_key_CaseSensitive(dog) == <<dog.name, dog.detail_url>>

dog_key(dog) == <<Lower(dog.name), dog.detail_url>>

\* the loop of _deduplicate_dogs from position k on
RECURSIVE DedupLoop(_, _, _, _)
DedupLoop(dogs, k, seen_dogs, unique) ==
    IF k > Len(dogs) THEN unique
    ELSE IF dog_key(dogs[k]) \notin seen_dogs
         THEN DedupLoop(dogs, k + 1, seen_dogs \cup {dog_key(dogs[k])},
                        Append(unique, dogs[k]))
         ELSE DedupLoop(dogs, k + 1, seen_dogs, unique)

\* variant: every listing is kept
_deduplicate_dogs_KeepAll(dogs) == dogs

_deduplicate_dogs(dogs) == DedupLoop(dogs, 1, {}, <<>>)

\* key of the final sort: x.get("score", 0)
SortKey(dog) == IF dog.scored THEN dog.score ELSE 0

\* variant: x goes in front of the elements of equal key
InsertPosStrict(sorted, x) ==
    Cardinality({j \in 1..Len(sorted) : SortKey(sorted[j]) > SortKey(x)})

\* variant: ascending order
InsertPosAscending(sorted, x) ==
    Cardinality({j \in 1..Len(sorted) : SortKey(sorted[j]) <= SortKey(x)})

\* where x goes in a list already sorted by key descending: behind every element
\* whose key is not smaller (list.sort is stable, also with reverse=True)
InsertPos(sorted, x) ==
    Cardinality({j \in 1..Len(sorted) : SortKey(sorted[j]) >= SortKey(x)})

InsertSorted(sorted, x) ==
    LET p == InsertPos(sorted, x)
    IN SubSeq(sorted, 1, p) \o <<x>> \o SubSeq(sorted, p + 1, Len(sorted))

RECURSIVE SortDesc(_, _)
SortDesc(dogs, k) ==
    IF k = 0 THEN <<>> ELSE InsertSorted(SortDesc(dogs, k - 1), dogs[k])

\* text get_full_description extracts from the detail page; "" when get_page
\* returns None or the page has no usable paragraph
Pages(detail_url) ==
    CASE detail_url = "/a" -> "calm"
      [] OTHER -> ""

\* get_full_description: <<returned text, cache afterwards>>
get_full_description(c, detail_url) ==
    LET cached == get_cached_description(c, detail_url)
    IN IF cached # "" THEN <<cached, c>>
       ELSE LET full_desc == Pages(detail_url)
            IN <<full_desc, set_cached_description(c, detail_url, full_desc, "")>>

\* the remote model: response text as tokens, digit runs carry their value;
\* "raise" stands for an exception of generate_content
Num(n) == [digits |-> TRUE, n |-> n]
Word == [digits |-> FALSE, n |-> 0]
Evaluator(description) ==
    CASE description = "calm" -> <<Word, Num(80), Word, Num(100)>>
      [] description = "shy"  -> <<Num(50)>>
      [] OTHER                -> <<Word, Word>>

\* descriptions on which generate_content raises
EvaluatorRaises(description) == description = "wild"

\* variant: the last run of digits is taken
_parse_gemini_score_LastRun(score_text) ==
    LET hits == {j \in 1..Len(score_text) : score_text[j].digits}
    IN IF hits = {} THEN 0
       ELSE score_text[CHOOSE j \in hits : \A m \in hits : j >= m].n

\* _parse_gemini_score: the first run of digits, 0 when there is none
_parse_gemini_score(score_text) ==
    LET hits == {j \in 1..Len(score_text) : score_text[j].digits}
    IN IF hits = {} THEN 0
       ELSE score_text[CHOOSE j \in hits : \A m \in hits : j <= m].n

\* _generate_gemini_prompt: "" only for an empty template file
_generate_gemini_prompt(p) ==
    IF p = NoFile THEN "default prompt" ELSE p

\* variant: the key is tested only after the remote model has been called
_call_gemini_api_KeyTestedLate(dog, key, p) ==
    IF _generate_gemini_prompt(p) = ""
    THEN [raised |-> FALSE, remote |-> FALSE, score |-> -1,
          score_details |-> <<"Prompt generation failed">>]
    ELSE IF EvaluatorRaises(dog.full_description)
    THEN [raised |-> TRUE, remote |-> TRUE, score |-> 0, score_details |-> <<>>]
    ELSE IF ~key
    THEN [raised |-> FALSE, remote |-> TRUE, score |-> 0,
          score_details |-> <<"Missing API Key">>]
    ELSE LET score == _parse_gemini_score(Evaluator(dog.full_description))
         IN [raised |-> FALSE, remote |-> TRUE, score |-> score,
             score_details |-> GeminiDetails(score)]

\* _call_gemini_api: whether it raised, whether it called the remote model, and
\* the score and details of the dict it returns
_call_gemini_api(dog, key, p) ==
    IF ~key
    THEN [raised |-> FALSE, remote |-> FALSE, score |-> 0,
          score_details |-> <<"Missing API Key">>]
    ELSE IF _generate_gemini_prompt(p) = ""
    THEN [raised |-> FALSE, remote |-> FALSE, score |-> -1,
          score_details |-> <<"Prompt generation failed">>]
    ELSE IF EvaluatorRaises(dog.full_description)
    THEN [raised |-> TRUE, remote |-> TRUE, score |-> 0, score_details |-> <<>>]
    ELSE LET score == _parse_gemini_score(Evaluator(dog.full_description))
         IN [raised |-> FALSE, remote |-> TRUE, score |-> score,
             score_details |-> GeminiDetails(score)]

NoResult == [score |-> 0, score_details |-> <<>>, via |-> "none"]
MissingDescription ==
    [score |-> -1, score_details |-> <<"Missing description">>, via |-> "nodesc"]
ErrorScoring ==
    [score |-> -1, score_details |-> <<"Error scoring with Gemini">>, via |-> "error"]

\* scoring tasks executing in the pool
Running == {i \in DOMAIN wpc : wpc[i] \in {"refetch", "lookup", "evaluate"}}

\* variant: the update also resets the description of the listing
Updated_ClearsDescription(dogs, i, r) ==
    [dogs EXCEPT ![i].scored = TRUE,
                 ![i].score = r.score,
                 ![i].score_details = r.score_details,
                 ![i].full_description = ""]

\* the body of the as_completed loop of _score_dogs_concurrently for the future of
\* listing i, which returned r: dog.update(scoring_result). The except branch
\* ("Scoring failed") needs a future that raised; score_dog_with_gemini catches
\* every exception, so r is always a returned dict.
Updated(dogs, i, r) ==
    [dogs EXCEPT ![i].scored = TRUE,
                 ![i].score = r.score,
                 ![i].score_details = r.score_details]

\* variant: the listings a raising collector had found are merged
Complete_KeepsPartial(s) ==
    /\ pc = "collecting"
    /\ s \in pending
    /\ pending' = pending \ {s}
    /\ all_dogs' = all_dogs \o outputs[s].dogs
    /\ failed' = IF outputs[s].raises THEN failed \cup {s} ELSE failed
    /\ UNCHANGED <<outputs, apiKey, prompt, loaded, cache, cacheFile, tmpFile, pc,
                   unique_dogs, wpc, result, apiCalls, remoteCalls, ranked>>
    /\ UNCHANGED threadVars
    /\ UNCHANGED auxVars

\* variant: the exception of a collector leaves scrape_all_sources
Complete_NoCatch(s) ==
    /\ pc = "collecting"
    /\ s \in pending
    /\ pending' = pending \ {s}
    /\ IF outputs[s].raises
       THEN /\ pc' = "raised"
            /\ UNCHANGED <<all_dogs, failed>>
       ELSE /\ all_dogs' = all_dogs \o outputs[s].dogs
            /\ UNCHANGED <<failed, pc>>
    /\ UNCHANGED <<outputs, apiKey, prompt, loaded, cache, cacheFile, tmpFile,
                   unique_dogs, wpc, result, apiCalls, remoteCalls, ranked>>
    /\ UNCHANGED threadVars
    /\ UNCHANGED auxVars

\* as_completed yields one collector future: extend all_dogs or log the exception
Complete(s) ==
    /\ pc = "collecting"
    /\ s \in pending
    /\ pending' = pending \ {s}
    /\ IF outputs[s].raises
       THEN /\ failed' = failed \cup {s}
            /\ UNCHANGED all_dogs
       ELSE /\ all_dogs' = all_dogs \o outputs[s].dogs
            /\ UNCHANGED failed
    /\ UNCHANGED <<outputs, apiKey, prompt, loaded, cache, cacheFile, tmpFile, pc,
                   unique_dogs, wpc, result, apiCalls, remoteCalls, ranked>>
    /\ UNCHANGED threadVars
    /\ UNCHANGED auxVars

\* variant: the collector pool is not joined before deduplication
Deduplicate_NoJoin ==
    /\ pc = "collecting"
    /\ unique_dogs' = _deduplicate_dogs(all_dogs)
    /\ wpc' = [i \in 1..Len(unique_dogs') |-> "queued"]
    /\ result' = [i \in 1..Len(unique_dogs') |-> NoResult]
    /\ apiCalls' = [i \in 1..Len(unique_dogs') |-> 0]
    /\ remoteCalls' = [i \in 1..Len(unique_dogs') |-> 0]
    /\ pc' = "scoring"
    /\ UNCHANGED <<outputs, apiKey, prompt, loaded, cache, cacheFile, tmpFile, pending,
                   failed, all_dogs, ranked>>
    /\ UNCHANGED threadVars
    /\ UNCHANGED auxVars

\* unique_dogs = self._deduplicate_dogs(all_dogs), then one scoring future per dog
Deduplicate ==
    /\ pc = "collecting"
    /\ pending = {}
    /\ unique_dogs' = _deduplicate_dogs(all_dogs)
    /\ wpc' = [i \in 1..Len(unique_dogs') |-> "queued"]
    /\ result' = [i \in 1..Len(unique_dogs') |-> NoResult]
    /\ apiCalls' = [i \in 1..Len(unique_dogs') |-> 0]
    /\ remoteCalls' = [i \in 1..Len(unique_dogs') |-> 0]
    /\ pc' = "scoring"
    /\ UNCHANGED <<outputs, apiKey, prompt, loaded, cache, cacheFile, tmpFile, pending,
                   failed, all_dogs, ranked>>
    /\ UNCHANGED threadVars
    /\ UNCHANGED auxVars

\* A scoring future that returns is handed to the as_completed loop in the same
\* step: between the return and dog.update nothing else reads or writes the listing.

\* score_dog_with_gemini up to the re-fetch: take the description from the listing or
\* from the Fetch Cache and store it back
Describe(i) ==
    /\ pc = "scoring"
    /\ i \in DOMAIN wpc
    /\ wpc[i] = "queued"
    /\ Cardinality(Running) < max_workers
    /\ LET dog == unique_dogs[i]
           detail_url == dog.detail_url
           full_desc == IF dog.full_description # "" THEN dog.full_description
                        ELSE get_cached_description(cache, detail_url)
       IN IF full_desc # ""
          THEN /\ cache' = set_cached_description(cache, detail_url, full_desc, "")
               /\ cacheFile' = IF detail_url = "" THEN cacheFile ELSE CompleteFile(cache')
               /\ wpc' = [wpc EXCEPT ![i] = "lookup"]
               /\ UNCHANGED <<result, unique_dogs>>
          ELSE IF detail_url # ""
          THEN /\ wpc' = [wpc EXCEPT ![i] = "refetch"]
               /\ UNCHANGED <<cache, cacheFile, result, unique_dogs>>
          ELSE /\ wpc' = [wpc EXCEPT ![i] = "updated"]
               /\ result' = [result EXCEPT ![i] = MissingDescription]
               /\ unique_dogs' = Updated(unique_dogs, i, MissingDescription)
               /\ UNCHANGED <<cache, cacheFile>>
    /\ UNCHANGED <<outputs, apiKey, prompt, loaded, tmpFile, pc, pending, failed,
                   all_dogs, apiCalls, remoteCalls, ranked>>
    /\ UNCHANGED threadVars
    /\ UNCHANGED auxVars

\* variant: a listing still without description goes on to the cache lookup
Refetch_ScoresAnyway(i) ==
    /\ pc = "scoring"
    /\ i \in DOMAIN wpc
    /\ wpc[i] = "refetch"
    /\ LET detail_url == unique_dogs[i].detail_url
           fetched == get_full_description(cache, detail_url)
           full_desc == fetched[1]
       IN /\ unique_dogs' = [unique_dogs EXCEPT ![i].full_description = full_desc]
          /\ cache' = set_cached_description(fetched[2], detail_url, full_desc, "")
          /\ cacheFile' = CompleteFile(cache')
          /\ wpc' = [wpc EXCEPT ![i] = "lookup"]
          /\ UNCHANGED result
    /\ UNCHANGED <<outputs, apiKey, prompt, loaded, tmpFile, pc, pending, failed,
                   all_dogs, apiCalls, remoteCalls, ranked>>
    /\ UNCHANGED threadVars
    /\ UNCHANGED auxVars

\* the re-fetch of the detail page for a listing without description
Refetch(i) ==
    /\ pc = "scoring"
    /\ i \in DOMAIN wpc
    /\ wpc[i] = "refetch"
    /\ LET detail_url == unique_dogs[i].detail_url
           fetched == get_full_description(cache, detail_url)
           full_desc == fetched[1]
       IN IF full_desc # ""
          THEN /\ unique_dogs' = [unique_dogs EXCEPT ![i].full_description = full_desc]
               /\ cache' = set_cached_description(fetched[2], detail_url, full_desc, "")
               /\ cacheFile' = CompleteFile(cache')
               /\ wpc' = [wpc EXCEPT ![i] = "lookup"]
               /\ UNCHANGED result
          ELSE /\ wpc' = [wpc EXCEPT ![i] = "updated"]
               /\ result' = [result EXCEPT ![i] = MissingDescription]
               /\ unique_dogs' = Updated(unique_dogs, i, MissingDescription)
               /\ UNCHANGED <<cache, cacheFile>>
    /\ UNCHANGED <<outputs, apiKey, prompt, loaded, tmpFile, pc, pending, failed,
                   all_dogs, apiCalls, remoteCalls, ranked>>
    /\ UNCHANGED threadVars
    /\ UNCHANGED auxVars

\* prompt_hash = self._compute_prompt_hash(); cached = self.get_cached_score(...)
Lookup(i) ==
    /\ pc = "scoring"
    /\ i \in DOMAIN wpc
    /\ wpc[i] = "lookup"
    /\ LET cached == get_cached_score(cache, unique_dogs[i].detail_url,
                                      _compute_prompt_hash(prompt))
           hit == [score |-> cached.score, score_details |-> cached.score_details,
                   via |-> "cache"]
       IN IF cached.present
          THEN /\ wpc' = [wpc EXCEPT ![i] = "updated"]
               /\ result' = [result EXCEPT ![i] = hit]
               /\ unique_dogs' = Updated(unique_dogs, i, hit)
          ELSE /\ wpc' = [wpc EXCEPT ![i] = "evaluate"]
               /\ UNCHANGED <<result, unique_dogs>>
    /\ UNCHANGED <<outputs, apiKey, prompt, loaded, cache, cacheFile, tmpFile, pc,
                   pending, failed, all_dogs, apiCalls, remoteCalls, ranked>>
    /\ UNCHANGED threadVars
    /\ UNCHANGED auxVars

\* variant: the exception of the evaluator is caught nowhere and leaves
\* _score_dogs_concurrently
Evaluate_NoCatch(i) ==
    /\ pc = "scoring"
    /\ i \in DOMAIN wpc
    /\ wpc[i] = "evaluate"
    /\ LET dog == unique_dogs[i]
           r == _call_gemini_api(dog, apiKey, prompt)
           returned == [score |-> r.score, score_details |-> r.score_details,
                        via |-> "api"]
       IN /\ apiCalls' = [apiCalls EXCEPT ![i] = @ + 1]
          /\ remoteCalls' = [remoteCalls EXCEPT ![i] = IF r.remote THEN @ + 1 ELSE @]
          /\ IF r.raised
             THEN /\ pc' = "raised"
                  /\ UNCHANGED <<result, unique_dogs, cache, cacheFile>>
             ELSE /\ result' = [result EXCEPT ![i] = returned]
                  /\ unique_dogs' = Updated(unique_dogs, i, returned)
                  /\ cache' = set_cached_score(cache, dog.detail_url,
                                               _compute_prompt_hash(prompt),
                                               r.score, r.score_details)
                  /\ cacheFile' = IF dog.detail_url = "" THEN cacheFile
                                  ELSE CompleteFile(cache')
                  /\ UNCHANGED pc
    /\ wpc' = [wpc EXCEPT ![i] = "updated"]
    /\ UNCHANGED <<outputs, apiKey, prompt, loaded, tmpFile, pending, failed,
                   all_dogs, ranked>>
    /\ UNCHANGED threadVars
    /\ UNCHANGED auxVars

\* result = self._call_gemini_api(dog_info); set_cached_score(...); return result,
\* or the except branch of score_dog_with_gemini. On success _call_gemini_api has
\* written the score into dog_info and returns dog_info itself.
Evaluate(i) ==
    /\ pc = "scoring"
    /\ i \in DOMAIN wpc
    /\ wpc[i] = "evaluate"
    /\ LET dog == unique_dogs[i]
           r == _call_gemini_api(dog, apiKey, prompt)
           returned == [score |-> r.score, score_details |-> r.score_details,
                        via |-> "api"]
       IN /\ apiCalls' = [apiCalls EXCEPT ![i] = @ + 1]
          /\ remoteCalls' = [remoteCalls EXCEPT ![i] = IF r.remote THEN @ + 1 ELSE @]
          /\ IF r.raised
             THEN /\ result' = [result EXCEPT ![i] = ErrorScoring]
                  /\ unique_dogs' = Updated(unique_dogs, i, ErrorScoring)
                  /\ UNCHANGED <<cache, cacheFile>>
             ELSE /\ result' = [result EXCEPT ![i] = returned]
                  /\ unique_dogs' = Updated(unique_dogs, i, returned)
                  /\ cache' = set_cached_score(cache, dog.detail_url,
                                               _compute_prompt_hash(prompt),
                                               r.score, r.score_details)
                  /\ cacheFile' = IF dog.detail_url = "" THEN cacheFile ELSE CompleteFile(cache')
    /\ wpc' = [wpc EXCEPT ![i] = "updated"]
    /\ UNCHANGED <<outputs, apiKey, prompt, loaded, tmpFile, pc, pending, failed,
                   all_dogs, ranked>>
    /\ UNCHANGED threadVars
    /\ UNCHANGED auxVars

\* unique_dogs.sort(key=..., reverse=True); return unique_dogs
Rank ==
    /\ pc = "scoring"
    /\ \A i \in DOMAIN wpc : wpc[i] = "updated"
    /\ ranked' = SortDesc(unique_dogs, Len(unique_dogs))
    /\ pc' = "done"
    /\ UNCHANGED <<outputs, apiKey, prompt, loaded, cache, cacheFile, tmpFile, pending,
                   failed, all_dogs, unique_dogs, wpc, result, apiCalls,
                   remoteCalls>>
    /\ UNCHANGED threadVars
    /\ UNCHANGED auxVars

\* indices of the scoring futures (no listing list of the model is longer)
Slots == 1..(NumSources * MaxOut)

Next ==
    \/ \E s \in Sources : Complete(s)
    \/ Deduplicate
    \/ \E i \in Slots : Describe(i)
    \/ \E i \in Slots : Refetch(i)
    \/ \E i \in Slots : Lookup(i)
    \/ \E i \in Slots : Evaluate(i)
    \/ Rank

Spec == Init /\ [][Next]_vars

\* the pools run every submitted task and as_completed yields every finished future
FairSpec == Spec /\ WF_vars(Next)

\* --------------------------------------------- one site with shared pages
\* listings of one site whose detail pages are shared between dogs of different
\* names, or missing: the identity key tells the dogs apart, the caches do not
SiteShapes ==
    {Listing("Rex", "/a", "calm", 1), Listing("Max", "/a", "", 1),
     Listing("Bo", "/a", "wild", 1), Listing("Max", "/b", "", 1),
     Listing("Bo", "", "", 1), Listing("Bo", "", "wild", 1),
     Listing("bo", "", "calm", 1)}

\* the first collector scrapes that site, the other collectors find nothing
SiteInit ==
    /\ outputs \in [Sources -> {[raises |-> FALSE, dogs |-> q] :
                                   q \in SeqsUpTo(SiteShapes, MaxOut)}]
    /\ \A s \in Sources \ {1} : outputs[s].dogs = <<>>
    /\ apiKey \in BOOLEAN
    /\ prompt \in {"tplA", "tplB"}
    /\ loaded \in InitCaches
    /\ loaded = EmptyCache => prompt = "tplA"
    /\ cache = loaded
    /\ cacheFile = CompleteFile(loaded)
    /\ tmpFile = NoTmp
    /\ pc = "collecting"
    /\ pending = Sources
    /\ failed = {}
    /\ all_dogs = <<>>
    /\ unique_dogs = <<>>
    /\ wpc = <<>>
    /\ result = <<>>
    /\ apiCalls = <<>>
    /\ remoteCalls = <<>>
    /\ ranked = <<>>
    /\ cache_lock = 0
    /\ tpc = [t \in Threads |-> "idle"]
    /\ targ = [t \in Threads |-> ""]
    /\ emptyCall = FALSE
    /\ tret = NoRet
    /\ lastSet = [u \in Urls |-> get_cached_description(cache, u)]
    /\ repeatSet = FALSE
    /\ AuxInit

SiteSpec == SiteInit /\ [][Next]_vars

\* ------------------------------------------------------------ cache clients
\* arguments the client threads pass
ClientUrls == {"", "/a"}
ClientTexts == {"", "calm", "shy"}
ClientNames == {"", "Rex"}

CacheInit ==
    /\ outputs = [s \in Sources |-> [raises |-> FALSE, dogs |-> <<>>]]
    /\ apiKey = TRUE
    /\ prompt = "tplA"
    /\ loaded \in InitCaches
    /\ cache = loaded
    /\ cacheFile = CompleteFile(loaded)
    /\ tmpFile = NoTmp
    /\ pc = "clients"
    /\ pending = {}
    /\ failed = {}
    /\ all_dogs = <<>>
    /\ unique_dogs = <<>>
    /\ wpc = <<>>
    /\ result = <<>>
    /\ apiCalls = <<>>
    /\ remoteCalls = <<>>
    /\ ranked = <<>>
    /\ cache_lock = 0
    /\ tpc = [t \in Threads |-> "idle"]
    /\ targ = [t \in Threads |-> ""]
    /\ emptyCall = FALSE
    /\ tret = NoRet
    /\ lastSet = [u \in Urls |-> get_cached_description(cache, u)]
    /\ repeatSet = FALSE
    /\ AuxInit

\* set_cached_description(detail_url, text, name) up to the call of _save_cache:
\* the early return, or the "with self.cache_lock" block
SetDescription(t, detail_url, text, name) ==
    /\ pc = "clients"
    /\ tpc[t] = "idle"
    /\ emptyCall' = (detail_url = "" \/ text = "")
    /\ tret' = NoRet
    /\ IF SetDescriptionReturnsEarly(detail_url, text)
       THEN UNCHANGED <<cache, tpc>>
       ELSE /\ cache_lock = 0
            /\ cache' = set_cached_description(cache, detail_url, text, name)
            /\ tpc' = [tpc EXCEPT ![t] = "save_lock"]
    /\ IF detail_url # "" /\ text # ""
       THEN /\ lastSet' = [lastSet EXCEPT ![detail_url] = text]
            /\ repeatSet' = (lastSet[detail_url] = text)
       ELSE UNCHANGED <<lastSet, repeatSet>>
    /\ UNCHANGED <<cacheFile, tmpFile, cache_lock>>
    /\ UNCHANGED targ
    /\ UNCHANGED pipeVars
    /\ UNCHANGED auxVars

\* _save_cache: "with self.cache_lock"
SaveAcquire(t) ==
    /\ pc = "clients"
    /\ tpc[t] = "save_lock"
    /\ cache_lock = 0
    /\ cache_lock' = t
    /\ tpc' = [tpc EXCEPT ![t] = "save_open"]
    /\ emptyCall' = FALSE
    /\ tret' = NoRet
    /\ UNCHANGED <<cache, cacheFile, tmpFile, lastSet, repeatSet>>
    /\ UNCHANGED targ
    /\ UNCHANGED pipeVars
    /\ UNCHANGED auxVars

\* variant: the document is written over cache.json itself
SaveOpen_InPlace(t) ==
    /\ pc = "clients"
    /\ tpc[t] = "save_open"
    /\ cacheFile' = PartialFile
    /\ tpc' = [tpc EXCEPT ![t] = "save_write"]
    /\ emptyCall' = FALSE
    /\ tret' = NoRet
    /\ UNCHANGED <<cache, tmpFile, cache_lock, lastSet, repeatSet>>
    /\ UNCHANGED targ
    /\ UNCHANGED pipeVars
    /\ UNCHANGED auxVars

\* _save_cache: open(tmp_path, "w") creates or truncates the temp file
SaveOpen(t) ==
    /\ pc = "clients"
    /\ tpc[t] = "save_open"
    /\ tmpFile' = PartialFile
    /\ tpc' = [tpc EXCEPT ![t] = "save_write"]
    /\ emptyCall' = FALSE
    /\ tret' = NoRet
    /\ UNCHANGED <<cache, cacheFile, cache_lock, lastSet, repeatSet>>
    /\ UNCHANGED targ
    /\ UNCHANGED pipeVars
    /\ UNCHANGED auxVars

\* variant: the exception of a failing write leaves _save_cache with the lock held
SaveWrite_KeepsLock(t) ==
    /\ pc = "clients"
    /\ tpc[t] = "save_write"
    /\ \E ok \in BOOLEAN :
          IF ok
          THEN /\ tmpFile' = CompleteFile(cache)
               /\ tpc' = [tpc EXCEPT ![t] = "save_replace"]
          ELSE /\ tmpFile' = PartialFile
               /\ tpc' = [tpc EXCEPT ![t] = "idle"]
    /\ emptyCall' = FALSE
    /\ tret' = NoRet
    /\ UNCHANGED <<cache, cacheFile, cache_lock, lastSet, repeatSet>>
    /\ UNCHANGED targ
    /\ UNCHANGED pipeVars
    /\ UNCHANGED auxVars

\* _save_cache: json.dump and the close of the temp file; a failing write leaves a
\* partial temp file, the exception is logged and the lock released
SaveWrite(t) ==
    /\ pc = "clients"
    /\ tpc[t] = "save_write"
    /\ \E ok \in BOOLEAN :
          IF ok
          THEN /\ tmpFile' = CompleteFile(cache)
               /\ tpc' = [tpc EXCEPT ![t] = "save_replace"]
               /\ UNCHANGED cache_lock
          ELSE /\ tmpFile' = PartialFile
               /\ tpc' = [tpc EXCEPT ![t] = "idle"]
               /\ cache_lock' = 0
    /\ emptyCall' = FALSE
    /\ tret' = NoRet
    /\ UNCHANGED <<cache, cacheFile, lastSet, repeatSet>>
    /\ UNCHANGED targ
    /\ UNCHANGED pipeVars
    /\ UNCHANGED auxVars

\* variant: the temp file is left where it is, cache.json is not replaced
SaveReplace_NoRename(t) ==
    /\ pc = "clients"
    /\ tpc[t] = "save_replace"
    /\ cache_lock' = 0
    /\ tpc' = [tpc EXCEPT ![t] = "idle"]
    /\ emptyCall' = FALSE
    /\ tret' = NoRet
    /\ UNCHANGED <<cache, cacheFile, tmpFile, lastSet, repeatSet>>
    /\ UNCHANGED targ
    /\ UNCHANGED pipeVars
    /\ UNCHANGED auxVars

\* _save_cache: os.replace(tmp_path, self.cache_file), then the lock is released
SaveReplace(t) ==
    /\ pc = "clients"
    /\ tpc[t] = "save_replace"
    /\ cacheFile' = tmpFile
    /\ tmpFile' = NoTmp
    /\ cache_lock' = 0
    /\ tpc' = [tpc EXCEPT ![t] = "idle"]
    /\ emptyCall' = FALSE
    /\ tret' = NoRet
    /\ UNCHANGED <<cache, lastSet, repeatSet>>
    /\ UNCHANGED targ
    /\ UNCHANGED pipeVars
    /\ UNCHANGED auxVars

\* prompt fingerprints the client threads pass
ClientHashes == {"", "hA"}

\* get_cached_description(detail_url): the early return, or the thread comes to
\* "with self.cache_lock" and goes on when it gets the lock
GetDescription(t, detail_url) ==
    /\ pc = "clients"
    /\ tpc[t] = "idle"
    /\ IF detail_url = ""
       THEN /\ tret' = [valid |-> TRUE, url |-> detail_url, text |-> ""]
            /\ UNCHANGED <<tpc, targ>>
       ELSE /\ tpc' = [tpc EXCEPT ![t] = "get_description"]
            /\ targ' = [targ EXCEPT ![t] = detail_url]
            /\ tret' = NoRet
    /\ emptyCall' = FALSE
    /\ UNCHANGED <<cache, cacheFile, tmpFile, cache_lock, lastSet, repeatSet>>
    /\ UNCHANGED pipeVars
    /\ UNCHANGED auxVars

\* get_cached_description: the block under the lock (acquire, read the dict, release)
ReadDescription(t) ==
    /\ pc = "clients"
    /\ tpc[t] = "get_description"
    /\ cache_lock = 0
    /\ tret' = [valid |-> TRUE, url |-> targ[t],
                text |-> get_cached_description(cache, targ[t])]
    /\ tpc' = [tpc EXCEPT ![t] = "idle"]
    /\ targ' = [targ EXCEPT ![t] = ""]
    /\ emptyCall' = FALSE
    /\ UNCHANGED <<cache, cacheFile, tmpFile, cache_lock, lastSet, repeatSet>>
    /\ UNCHANGED pipeVars
    /\ UNCHANGED auxVars

\* get_cached_name(detail_url): the early return, or the thread comes to the lock
GetName(t, detail_url) ==
    /\ pc = "clients"
    /\ tpc[t] = "idle"
    /\ IF detail_url = ""
       THEN UNCHANGED <<tpc, targ>>
       ELSE /\ tpc' = [tpc EXCEPT ![t] = "get_name"]
            /\ targ' = [targ EXCEPT ![t] = detail_url]
    /\ emptyCall' = FALSE
    /\ tret' = NoRet
    /\ UNCHANGED <<cache, cacheFile, tmpFile, cache_lock, lastSet, repeatSet>>
    /\ UNCHANGED pipeVars
    /\ UNCHANGED auxVars

\* get_cached_score(detail_url, prompt_hash): the early return, or the thread comes
\* to the lock
GetScore(t, detail_url, prompt_hash) ==
    /\ pc = "clients"
    /\ tpc[t] = "idle"
    /\ IF detail_url = "" \/ prompt_hash = ""
       THEN UNCHANGED <<tpc, targ>>
       ELSE /\ tpc' = [tpc EXCEPT ![t] = "get_score"]
            /\ targ' = [targ EXCEPT ![t] = detail_url]
    /\ emptyCall' = FALSE
    /\ tret' = NoRet
    /\ UNCHANGED <<cache, cacheFile, tmpFile, cache_lock, lastSet, repeatSet>>
    /\ UNCHANGED pipeVars
    /\ UNCHANGED auxVars

\* get_cached_name and get_cached_score: the block under the lock; the value read
\* goes to the caller and changes nothing
ReadNameOrScore(t) ==
    /\ pc = "clients"
    /\ tpc[t] \in {"get_name", "get_score"}
    /\ cache_lock = 0
    /\ tpc' = [tpc EXCEPT ![t] = "idle"]
    /\ targ' = [targ EXCEPT ![t] = ""]
    /\ emptyCall' = FALSE
    /\ tret' = NoRet
    /\ UNCHANGED <<cache, cacheFile, tmpFile, cache_lock, lastSet, repeatSet>>
    /\ UNCHANGED pipeVars
    /\ UNCHANGED auxVars

CacheNext ==
    \/ \E t \in Threads, u \in ClientUrls, x \in ClientTexts, n \in ClientNames :
          SetDescription(t, u, x, n)
    \/ \E t \in Threads : SaveAcquire(t)
    \/ \E t \in Threads : SaveOpen(t)
    \/ \E t \in Threads : SaveWrite(t)
    \/ \E t \in Threads : SaveReplace(t)
    \/ \E t \in Threads, u \in ClientUrls : GetDescription(t, u)
    \/ \E t \in Threads : ReadDescription(t)
    \/ \E t \in Threads, u \in ClientUrls : GetName(t, u)
    \/ \E t \in Threads, u \in ClientUrls, h \in ClientHashes : GetScore(t, u, h)
    \/ \E t \in Threads : ReadNameOrScore(t)

CacheSpec == CacheInit /\ [][CacheNext]_vars

\* ------------------------------------------------------ crash and restart
\* the process starts on whatever cache.json the disk holds
CrashInit ==
    /\ outputs = [s \in Sources |-> [raises |-> FALSE, dogs |-> <<>>]]
    /\ apiKey = TRUE
    /\ prompt = "tplA"
    /\ cacheFile \in DiskFiles
    /\ loaded = _load_cache(cacheFile).data
    /\ cache = loaded
    /\ tmpFile = NoTmp
    /\ pc = "clients"
    /\ pending = {}
    /\ failed = {}
    /\ all_dogs = <<>>
    /\ unique_dogs = <<>>
    /\ wpc = <<>>
    /\ result = <<>>
    /\ apiCalls = <<>>
    /\ remoteCalls = <<>>
    /\ ranked = <<>>
    /\ cache_lock = 0
    /\ tpc = [t \in Threads |-> "idle"]
    /\ targ = [t \in Threads |-> ""]
    /\ emptyCall = FALSE
    /\ tret = NoRet
    /\ lastSet = [u \in Urls |-> get_cached_description(cache, u)]
    /\ repeatSet = FALSE
    /\ AuxInit

\* the process dies (a kill, an abort of the interpreter): its threads stop where
\* they are, the files stay as they are
Crash ==
    /\ pc = "clients"
    /\ pc' = "crashed"
    /\ emptyCall' = FALSE
    /\ tret' = NoRet
    /\ UNCHANGED <<outputs, apiKey, prompt, loaded, cache, cacheFile, tmpFile, pending,
                   failed, all_dogs, unique_dogs, wpc, result, apiCalls, remoteCalls,
                   ranked, cache_lock, tpc, targ, lastSet, repeatSet>>
    /\ UNCHANGED auxVars

\* the next process: CoreMixin.__init__ builds a new lock and calls _load_cache
Restart ==
    /\ pc = "crashed"
    /\ LET r == _load_cache(cacheFile)
       IN IF r.raised
          THEN /\ pc' = "failed"
               /\ UNCHANGED <<loaded, cache, lastSet>>
          ELSE /\ pc' = "clients"
               /\ loaded' = r.data
               /\ cache' = r.data
               /\ lastSet' = [u \in Urls |-> get_cached_description(r.data, u)]
    /\ cache_lock' = 0
    /\ tpc' = [t \in Threads |-> "idle"]
    /\ targ' = [t \in Threads |-> ""]
    /\ emptyCall' = FALSE
    /\ tret' = NoRet
    /\ repeatSet' = FALSE
    /\ UNCHANGED <<outputs, apiKey, prompt, cacheFile, tmpFile, pending, failed,
                   all_dogs, unique_dogs, wpc, result, apiCalls, remoteCalls, ranked>>
    /\ UNCHANGED auxVars

CrashNext ==
    \/ \E t \in Threads, u \in ClientUrls, x \in ClientTexts, n \in ClientNames :
          SetDescription(t, u, x, n)
    \/ \E t \in Threads : SaveAcquire(t)
    \/ \E t \in Threads : SaveOpen(t)
    \/ \E t \in Threads : SaveWrite(t)
    \/ \E t \in Threads : SaveReplace(t)
    \/ Crash
    \/ Restart

CrashSpec == CrashInit /\ [][CrashNext]_vars

\* ================================================================= properties
IdentityKey(dog) == <<Lower(dog.name), dog.detail_url>>
KeysOf(dogs) == {IdentityKey(dogs[j]) : j \in 1..Len(dogs)}
FirstWithKey(dogs, k) ==
    CHOOSE j \in 1..Len(dogs) :
        /\ IdentityKey(dogs[j]) = k
        /\ \A m \in 1..(j - 1) : IdentityKey(dogs[m]) # k
DistinctKeys(dogs) ==
    \A i, j \in 1..Len(dogs) : i # j => IdentityKey(dogs[i]) # IdentityKey(dogs[j])
PositionIn(dogs, dog) == CHOOSE j \in 1..Len(dogs) : dogs[j] = dog
NonIncreasing(dogs) ==
    \A i, j \in 1..Len(dogs) : i < j => dogs[i].score >= dogs[j].score
CurrentHash == _compute_prompt_hash(prompt)

\* _deduplicate_dogs has returned and no scoring task has touched a listing yet
FreshlyDeduplicated ==
    /\ pc = "scoring"
    /\ \A i \in DOMAIN wpc : wpc[i] = "queued"

\* C1: the output of _deduplicate_dogs holds exactly one listing per identity key
\* (lowercase(name), detail_url) of its input, that listing is the first one of the
\* input with the key, and the kept listings are in their input order.
C1_DedupKeepsFirstPerKey ==
    FreshlyDeduplicated =>
        /\ KeysOf(unique_dogs) = KeysOf(all_dogs)
        /\ DistinctKeys(unique_dogs)
        /\ \A i \in 1..Len(unique_dogs) :
              unique_dogs[i] = all_dogs[FirstWithKey(all_dogs, IdentityKey(unique_dogs[i]))]
        /\ \A i, j \in 1..Len(unique_dogs) :
              i < j => FirstWithKey(all_dogs, IdentityKey(unique_dogs[i]))
                         < FirstWithKey(all_dogs, IdentityKey(unique_dogs[j]))

\* two listings whose names differ only in case were merged, a later one was dropped
C1_Witness ==
    /\ FreshlyDeduplicated
    /\ Len(unique_dogs) >= 2
    /\ \E i, j \in 1..Len(all_dogs) :
          /\ i < j
          /\ all_dogs[i].name # all_dogs[j].name
          /\ IdentityKey(all_dogs[i]) = IdentityKey(all_dogs[j])
          /\ \E k \in 1..Len(unique_dogs) : unique_dogs[k] = all_dogs[i]

\* C2: the returned list is the deduplicated list sorted by score descending and
\* stably: the same listings, scores never increase along it, listings of equal score
\* keep their order of the deduplicated list, a score of -1 comes behind every
\* score >= 0.
C2_RankStableDescending ==
    pc = "done" =>
        /\ Len(ranked) = Len(unique_dogs)
        /\ \A i \in 1..Len(unique_dogs) : \E j \in 1..Len(ranked) : ranked[j] = unique_dogs[i]
        /\ \A i \in 1..Len(ranked) : ranked[i].scored
        /\ NonIncreasing(ranked)
        /\ \A i, j \in 1..Len(ranked) :
              (i < j /\ ranked[i].score = ranked[j].score)
                  => PositionIn(unique_dogs, ranked[i]) < PositionIn(unique_dogs, ranked[j])
        /\ \A i, j \in 1..Len(ranked) :
              (ranked[i].score = -1 /\ ranked[j].score >= 0) => j < i

\* a run whose sort moved listings, with a tie and with a failed listing behind a
\* scored one
C2_Witness ==
    /\ pc = "done"
    /\ ranked # unique_dogs
    /\ \E i, j \in 1..Len(ranked) : i < j /\ ranked[i].score = ranked[j].score
    /\ \E i, j \in 1..Len(ranked) : ranked[i].score > 0 /\ ranked[j].score = -1

FromSource(dogs, s) == SelectSeq(dogs, LAMBDA d : d.source = s)

\* C3: whatever collectors raise, scrape_all_sources goes on; the raw merged list
\* holds, per collector that returned, exactly the listings it returned, and nothing
\* of a collector that raised; every collector is collected before deduplication.
C3_CollectionFailureIsolated ==
    /\ pc \in {"collecting", "scoring", "done"}
    /\ pc # "collecting" => pending = {}
    /\ failed = {s \in Sources \ pending : outputs[s].raises}
    /\ \A s \in Sources :
          FromSource(all_dogs, s) =
              IF s \notin pending /\ ~outputs[s].raises THEN outputs[s].dogs ELSE <<>>
    /\ \A j \in 1..Len(all_dogs) : all_dogs[j].source \in Sources

\* every collector is done, one raised, another one returned listings
C3_Witness ==
    /\ pending = {}
    /\ failed # {}
    /\ \E s \in Sources \ failed : outputs[s].dogs # <<>> /\ FromSource(all_dogs, s) # <<>>

\* C6: with a score cached under (url, F1) and none under the current fingerprint
\* F2 # F1, the lookup misses and _call_gemini_api is called afresh; the score it
\* returns is stored under (url, F2); no step changes an entry of another
\* fingerprint than the current one.
C6_FingerprintInvalidates ==
    [][\A i \in DOMAIN wpc :
          LET u == unique_dogs[i].detail_url
          IN /\ ( /\ wpc[i] = "lookup"
                  /\ wpc'[i] # "lookup"
                  /\ \E F1 \in Hashes \ {CurrentHash} : cache.scores[u][F1].present
                  /\ ~cache.scores[u][CurrentHash].present )
                    => (wpc'[i] = "evaluate" /\ result'[i] = NoResult)
             /\ (wpc[i] = "evaluate" /\ wpc'[i] # "evaluate")
                    => /\ apiCalls'[i] = apiCalls[i] + 1
                       /\ (result'[i].via = "api" /\ u # "")
                             => cache'.scores[u][CurrentHash] =
                                   [present |-> TRUE, score |-> result'[i].score,
                                    score_details |-> result'[i].score_details]
             /\ \A url \in Urls, F1 \in Hashes \ {CurrentHash} :
                    cache'.scores[url][F1] = cache.scores[url][F1]
      ]_vars

\* the loaded cache had a score for "/a" under hA, the template now hashes to hB, a
\* listing of "/a" was evaluated afresh and both entries are in the cache
C6_Witness ==
    /\ prompt = "tplB"
    /\ loaded.scores["/a"]["hA"].present
    /\ cache.scores["/a"]["hA"] = loaded.scores["/a"]["hA"]
    /\ \E i \in DOMAIN wpc :
          /\ unique_dogs[i].detail_url = "/a"
          /\ result[i].via = "api"
          /\ apiCalls[i] = 1
          /\ cache.scores["/a"]["hB"].present
          /\ cache.scores["/a"]["hB"].score = result[i].score

\* C7: when the lookup of a listing finds (detail_url, current fingerprint) in the
\* Scoring Cache, score_dog_with_gemini returns the cached score and details, the
\* listing ends with them, and _call_gemini_api is not invoked for it.
C7_CacheHitSkipsEvaluator ==
    /\ [][\A i \in DOMAIN wpc :
             LET u == unique_dogs[i].detail_url
                 e == cache.scores[u][CurrentHash]
             IN (wpc[i] = "lookup" /\ wpc'[i] # "lookup" /\ u # "" /\ e.present)
                   => /\ wpc'[i] = "updated"
                      /\ result'[i].score = e.score
                      /\ result'[i].score_details = e.score_details
                      /\ result'[i].via = "cache"
                      /\ apiCalls' = apiCalls
                      /\ remoteCalls' = remoteCalls
        ]_vars
    /\ [](\A i \in DOMAIN wpc :
             result[i].via = "cache"
                => /\ apiCalls[i] = 0
                   /\ remoteCalls[i] = 0
                   /\ wpc[i] = "updated"
                        => /\ unique_dogs[i].score = result[i].score
                           /\ unique_dogs[i].score_details = result[i].score_details)

\* a listing scored from the entry the loaded cache had for it
C7_Witness ==
    \E i \in DOMAIN wpc :
        /\ wpc[i] = "updated"
        /\ result[i].via = "cache"
        /\ unique_dogs[i].full_description # ""
        /\ loaded.scores[unique_dogs[i].detail_url][CurrentHash].present
        /\ unique_dogs[i].score = loaded.scores[unique_dogs[i].detail_url][CurrentHash].score

MissingApiKey == <<"Missing API Key">>

\* C8 as stated: without API key every listing of the returned list is scored as
\* "Missing API Key".
C8_EveryListingMissingKey ==
    (pc = "done" /\ ~apiKey) =>
        \A j \in 1..Len(ranked) : ranked[j].score_details = MissingApiKey

\* C8: without API key the remote model is never called; a listing for which
\* _call_gemini_api is invoked (it has a description and no cache entry under the
\* current fingerprint) ends with score 0 and details "Missing API Key"; every
\* other listing ends as "Missing description" or with the score of a cache entry;
\* the run completes.
C8_AbsentKey ==
    /\ [](~apiKey =>
            \A i \in DOMAIN wpc :
                /\ remoteCalls[i] = 0
                /\ wpc[i] = "updated" =>
                      /\ unique_dogs[i].scored
                      /\ apiCalls[i] > 0 =>
                            /\ unique_dogs[i].score = 0
                            /\ unique_dogs[i].score_details = MissingApiKey
                      /\ apiCalls[i] = 0 => result[i].via \in {"nodesc", "cache"}
                      /\ result[i].via = "nodesc" =>
                            /\ unique_dogs[i].score = -1
                            /\ unique_dogs[i].score_details = <<"Missing description">>)
    /\ (~apiKey ~> pc = "done")

\* a run without key has ended; one listing went through _call_gemini_api, another
\* one has no description
C8_Witness ==
    /\ pc = "done"
    /\ ~apiKey
    /\ \E i \in DOMAIN wpc : apiCalls[i] = 1 /\ unique_dogs[i].score_details = MissingApiKey
    /\ \E i \in DOMAIN wpc : result[i].via = "nodesc"

\* C9: every run of scrape_all_sources reaches its return, whatever collectors and
\* evaluator calls fail.
C9_RunCompletes == <>(pc = "done")

\* a finished run in which a collector raised and an evaluator call raised
C9_Witness ==
    /\ pc = "done"
    /\ failed # {}
    /\ \E i \in DOMAIN wpc : result[i].via = "error" /\ remoteCalls[i] = 1

\* the run in which the collectors complete in submission order and the listings
\* are scored one after the other
RECURSIVE RawInOrder(_)
RawInOrder(n) ==
    IF n = 0 THEN <<>>
    ELSE RawInOrder(n - 1) \o (IF outputs[n].raises THEN <<>> ELSE outputs[n].dogs)

Scored(dog, score, score_details) ==
    [dog EXCEPT !.scored = TRUE, !.score = score, !.score_details = score_details]

\* score_dog_with_gemini and dog.update run alone on cache c: <<listing, cache>>
ScoreAlone(dog, c) ==
    LET u == dog.detail_url
        have == IF dog.full_description # "" THEN dog.full_description
                ELSE get_cached_description(c, u)
        fetched == get_full_description(c, u)
        desc == IF have # "" THEN have ELSE IF u # "" THEN fetched[1] ELSE ""
        dog1 == IF have = "" /\ desc # "" THEN [dog EXCEPT !.full_description = desc]
                ELSE dog
        c1 == IF have # "" THEN set_cached_description(c, u, have, "")
              ELSE IF desc # "" THEN set_cached_description(fetched[2], u, desc, "")
              ELSE c
        hit == get_cached_score(c1, u, CurrentHash)
        r == _call_gemini_api(dog1, apiKey, prompt)
    IN IF desc = "" THEN <<Scored(dog, -1, <<"Missing description">>), c>>
       ELSE IF hit.present THEN <<Scored(dog1, hit.score, hit.score_details), c1>>
       ELSE IF r.raised THEN <<Scored(dog1, -1, <<"Error scoring with Gemini">>), c1>>
       ELSE <<Scored(dog1, r.score, r.score_details),
              set_cached_score(c1, u, CurrentHash, r.score, r.score_details)>>

RECURSIVE ScoreInOrder(_, _, _)
ScoreInOrder(dogs, k, c) ==
    IF k = 0 THEN <<<<>>, c>>
    ELSE LET before == ScoreInOrder(dogs, k - 1, c)
             one == ScoreAlone(dogs[k], before[2])
         IN <<Append(before[1], one[1]), one[2]>>

ReferenceRanked ==
    LET unique == _deduplicate_dogs(RawInOrder(NumSources))
        scoredDogs == ScoreInOrder(unique, Len(unique), loaded)[1]
    IN SortDesc(scoredDogs, Len(scoredDogs))

C4_NeverEvicted ==
    [][ /\ \A u \in Urls :
              get_cached_description(cache, u) # "" => get_cached_description(cache', u) # ""
        /\ emptyCall' => (cache' = cache /\ cacheFile' = cacheFile /\ tpc' = tpc)
      ]_vars

\* a text stored by a client is still there after a call with an empty argument
C4_Witness ==
    /\ emptyCall
    /\ cache.descriptions["/a"].text = "shy"
    /\ cacheFile.doc.descriptions["/a"].text = "shy"

\* C5: get_cached_description(url) returns the text of the last
\* set_cached_description(url, text) call that had a url and a text, whether that
\* call was made once or repeated with the same arguments.
C5_SetGetRoundTrip ==
    (tret.valid /\ tret.url # "") => tret.text = lastSet[tret.url]

\* the getter returns a text that the last setter call passed a second time
C5_Witness ==
    /\ tret.valid
    /\ tret.text = "shy"
    /\ repeatSet
    /\ lastSet["/a"] = "shy"

\* C12: whatever step of _save_cache a crash interrupts (before, during or after
\* the write of the temp file, before or after the rename), every step leaves
\* cache.json either as it was or as the complete serialization of the cache of
\* that moment; a complete cache.json never becomes a partial or absent one.
C12_CrashAtomicPersist ==
    [][ /\ \/ cacheFile' = cacheFile
           \/ cacheFile' = CompleteFile(cache)
        /\ cacheFile.state = "complete" => cacheFile'.state = "complete"
        /\ pc' = "crashed" => cacheFile' = cacheFile
      ]_vars

\* the process crashed while a thread was writing the temp file; cache.json is the
\* complete document of an earlier save of the same process, older than the cache
C12_Witness ==
    /\ pc = "crashed"
    /\ \E t \in Threads : tpc[t] = "save_write" /\ cache_lock = t
    /\ tmpFile.state = "partial"
    /\ cacheFile.state = "complete"
    /\ cacheFile.doc # loaded
    /\ cacheFile.doc # cache

\* C13: _load_cache never raises: no cache.json gives the empty cache, a cache.json
\* that cannot be read or parsed gives the empty cache, a document gives its
\* mappings, with a missing "descriptions" or "scores" key read as an empty mapping
\* and the mapping of the other key kept.
C13_LoadNeverFails ==
    /\ [](pc # "failed")
    /\ [][(pc = "crashed" /\ pc' # "crashed") =>
            /\ pc' = "clients"
            /\ cacheFile.state \in {"absent", "partial"} => cache' = EmptyCache
            /\ cacheFile.state = "complete" =>
                  /\ cache'.descriptions =
                        IF "descriptions" \in cacheFile.keys
                        THEN cacheFile.doc.descriptions ELSE EmptyCache.descriptions
                  /\ cache'.scores =
                        IF "scores" \in cacheFile.keys
                        THEN cacheFile.doc.scores ELSE EmptyCache.scores
       ]_vars

\* a process started on a cache.json that is not a JSON document and runs with the
\* empty cache (the partial temp file is what the crashed process left)
C13_Witness ==
    /\ pc = "clients"
    /\ cacheFile.state = "partial"
    /\ tmpFile.state = "partial"
    /\ cache = EmptyCache
    /\ \A t \in Threads : tpc[t] = "idle"

\* the end-to-end scenario: nothing cached, a key, one collector returns "Rex" with
\* "/a" and another one returns "rex" with "/a"
RexKey == <<"rex", "/a">>
ReturnsNamed(s, n) ==
    /\ ~outputs[s].raises
    /\ \E j \in 1..Len(outputs[s].dogs) :
          outputs[s].dogs[j].name = n /\ outputs[s].dogs[j].detail_url = "/a"
RexScenario ==
    /\ loaded = EmptyCache
    /\ apiKey
    /\ \E s1, s2 \in Sources : s1 < s2 /\ ReturnsNamed(s1, "Rex") /\ ReturnsNamed(s2, "rex")
SuccessfulKeys ==
    UNION {KeysOf(outputs[s].dogs) : s \in {x \in Sources : ~outputs[x].raises}}

FailureLabels ==
    {<<"Error scoring with Gemini">>, <<"Missing description">>, MissingApiKey}

\* the listing of scoring future i ended in Error or Unscorable: the evaluator
\* raised, no description could be obtained, or _call_gemini_api found no key
EndedInFailure(i) ==
    /\ wpc[i] = "updated"
    /\ \/ result[i].via \in {"error", "nodesc"}
       \/ result[i].via = "api" /\ ~apiKey

\* C14: every listing that ends scoring in Error or Unscorable (evaluator
\* exception, description missing after the re-fetch, missing API key) has score -1
\* and one of the failure labels as score_details.
C14_FailureSentinel ==
    \A i \in DOMAIN wpc :
        EndedInFailure(i) =>
            /\ unique_dogs[i].score = -1
            /\ unique_dogs[i].score_details \in FailureLabels

\* the listing of scoring future i as its collector returned it
Original(i) == all_dogs[FirstWithKey(all_dogs, IdentityKey(unique_dogs[i]))]

EndedInError(i) == wpc[i] = "updated" /\ result[i].via = "error"

\* the run on the same listings without those whose evaluation raised, scored one
\* after the other: <<listings, cache>> (a left-out listing keeps its place, unscored)
RECURSIVE RunWithoutFailing(_)
RunWithoutFailing(k) ==
    IF k = 0 THEN <<<<>>, loaded>>
    ELSE LET before == RunWithoutFailing(k - 1)
             one == ScoreAlone(Original(k), before[2])
         IN IF EndedInError(k)
            THEN <<Append(before[1], Original(k)), before[2]>>
            ELSE <<Append(before[1], one[1]), one[2]>>

\* no other listing of the run has the detail_url of listing j
UrlOfItsOwn(j) ==
    \/ unique_dogs[j].detail_url = ""
    \/ \A k \in DOMAIN wpc : k # j => unique_dogs[k].detail_url # unique_dogs[j].detail_url

\* C15 as stated: when the evaluator raised for a listing, that listing has the error
\* sentinel and every other listing ends with the score it has in the run without
\* the failing listing.
C15_SameScoreWithoutFailing ==
    (pc = "done" /\ \E i \in DOMAIN wpc : EndedInError(i)) =>
        \A j \in DOMAIN wpc :
            IF EndedInError(j)
            THEN unique_dogs[j].score = -1
            ELSE unique_dogs[j].score =
                     RunWithoutFailing(Len(unique_dogs))[1][j].score

\* C15: a listing whose evaluation raised ends with score -1 and "Error scoring with
\* Gemini"; the exception ends neither the run nor another task: a step of one
\* scoring task changes only its own listing and the cache entries of its own
\* detail_url, every other running task can still take its step, and at the end
\* every listing is scored; a listing whose detail_url no other listing has ends
\* with the score it gets when scored alone on the loaded cache.
C15_FailureIsolated ==
    /\ [](/\ pc \in {"collecting", "scoring", "done"}
          /\ \A i \in DOMAIN wpc :
                /\ EndedInError(i) =>
                      /\ unique_dogs[i].score = -1
                      /\ unique_dogs[i].score_details = <<"Error scoring with Gemini">>
                /\ ((\E k \in DOMAIN wpc : EndedInError(k)) /\ i \in Running)
                      => ENABLED (Refetch(i) \/ Lookup(i) \/ Evaluate(i))
          /\ pc = "done" =>
                \A j \in DOMAIN wpc :
                    /\ wpc[j] = "updated"
                    /\ unique_dogs[j].scored
                    /\ UrlOfItsOwn(j) =>
                          unique_dogs[j].score = ScoreAlone(Original(j), loaded)[1].score)
    /\ [][\A i \in DOMAIN wpc :
             (pc = "scoring" /\ wpc'[i] # wpc[i]) =>
                /\ \A j \in DOMAIN wpc \ {i} :
                      /\ unique_dogs'[j] = unique_dogs[j]
                      /\ wpc'[j] = wpc[j]
                      /\ result'[j] = result[j]
                /\ \A u \in Urls \ {unique_dogs[i].detail_url} :
                      /\ cache'.descriptions[u] = cache.descriptions[u]
                      /\ cache'.scores[u] = cache.scores[u]
       ]_vars

\* a finished run in which one evaluation raised and a listing of another
\* detail_url got a score from the evaluator
C15_Witness ==
    /\ pc = "done"
    /\ \E i, j \in DOMAIN wpc :
          /\ EndedInError(i)
          /\ remoteCalls[i] = 1
          /\ UrlOfItsOwn(j)
          /\ result[j].via = "api"
          /\ unique_dogs[j].score = 80

\* how far score_dog_with_gemini has come
Stage(position) ==
    CASE position = "queued"   -> 0
      [] position = "refetch"  -> 1
      [] position = "lookup"   -> 2
      [] position = "evaluate" -> 3
      [] OTHER                 -> 4

\* the scoring futures that have invoked _call_gemini_api
Callers == {i \in DOMAIN wpc : apiCalls[i] > 0}

\* C16 as stated: over the deduplicated listings the evaluator is invoked at most
\* once per (detail_url, prompt fingerprint); the fingerprint is the same for the
\* whole run.
C16_OncePerUrl ==
    \A i, j \in {k \in DOMAIN wpc : remoteCalls[k] > 0} :
        unique_dogs[i].detail_url = unique_dogs[j].detail_url => i = j

\* C16: the deduplicated listings have distinct identity keys, each has one scoring
\* future, the future goes through the stages of score_dog_with_gemini once and in
\* order, and it invokes the evaluator at most once, in its Evaluate stage: at most
\* one invocation per listing, under every interleaving. Two listings that share a
\* detail_url under different names can both invoke it.
C16_OncePerListing ==
    /\ [](/\ DistinctKeys(unique_dogs)
          /\ pc # "collecting" => DOMAIN wpc = DOMAIN unique_dogs
          /\ \A i \in DOMAIN wpc :
                /\ apiCalls[i] <= 1
                /\ remoteCalls[i] <= apiCalls[i]
                /\ apiCalls[i] = 1 => wpc[i] = "updated"
          /\ \A i, j \in Callers :
                IdentityKey(unique_dogs[i]) = IdentityKey(unique_dogs[j]) => i = j)
    /\ [][\A i \in DOMAIN wpc :
             /\ Stage(wpc'[i]) >= Stage(wpc[i])
             /\ apiCalls'[i] # apiCalls[i] =>
                   /\ wpc[i] = "evaluate"
                   /\ wpc'[i] = "updated"
                   /\ \A j \in DOMAIN wpc \ {i} : apiCalls'[j] = apiCalls[j]
       ]_vars

\* two listings of different names share "/a"; the evaluator was invoked for each
C16_Witness ==
    \E i, j \in Callers :
        /\ i # j
        /\ unique_dogs[i].detail_url = "/a"
        /\ unique_dogs[j].detail_url = "/a"
        /\ remoteCalls[i] = 1
        /\ remoteCalls[j] = 1

\* C17: while a collector task is unfinished no scoring task exists; scoring tasks
\* exist only for the deduplicated merge of all collectors' outputs, which no longer
\* changes; the list is ranked only when every scoring task has finished and been
\* applied.
C17_Barrier ==
    /\ [](/\ pending # {} => (pc = "collecting" /\ DOMAIN wpc = {} /\ unique_dogs = <<>>)
          /\ DOMAIN wpc # {} =>
                /\ pc \in {"scoring", "done"}
                /\ KeysOf(unique_dogs) = KeysOf(all_dogs)
                /\ DistinctKeys(unique_dogs)
                /\ \A s \in Sources :
                      FromSource(all_dogs, s) =
                          IF outputs[s].raises THEN <<>> ELSE outputs[s].dogs
          /\ pc = "done" => \A i \in DOMAIN wpc : wpc[i] = "updated")
    /\ [][ /\ all_dogs' # all_dogs => (pending # {} /\ DOMAIN wpc = {})
           /\ (\E i \in DOMAIN wpc : wpc'[i] # wpc[i]) => (pending = {} /\ pc = "scoring")
           /\ ranked' # ranked => \A i \in DOMAIN wpc : wpc[i] = "updated"
       ]_vars

\* two scoring tasks are running at once on a merge that lost a duplicate, with
\* every collector finished
C17_Witness ==
    /\ pc = "scoring"
    /\ Cardinality(Running) >= 2
    /\ pending = {}
    /\ Len(all_dogs) > Len(unique_dogs)

\* the fields of a listing the scoring step has no business with
Identity(dog) == <<dog.name, dog.detail_url, dog.source>>
ScoreFields(dog) == <<dog.scored, dog.score, dog.score_details>>

\* C18 as stated: once a collector has returned a listing, no step changes its name,
\* detail_url, full_description or source.
C18_OnlyScoreChanges ==
    [][\A i \in DOMAIN wpc :
          /\ Identity(unique_dogs'[i]) = Identity(unique_dogs[i])
          /\ unique_dogs'[i].full_description = unique_dogs[i].full_description
      ]_vars

\* C18: from the return of its collector to the end of the run a listing keeps its
\* name, detail_url and source; its full_description changes at most once, from
\* empty to the text the re-fetch of its scoring task obtained; its score and
\* score_details change only in the step that finishes its scoring task.
C18_ListingFrame ==
    /\ [](pc # "collecting" =>
            /\ \A i \in DOMAIN wpc :
                  /\ Identity(unique_dogs[i]) = Identity(Original(i))
                  /\ \/ unique_dogs[i].full_description = Original(i).full_description
                     \/ Original(i).full_description = ""
                  /\ wpc[i] # "updated" => ScoreFields(unique_dogs[i]) = ScoreFields(Original(i))
            /\ pc = "done" =>
                  \A j \in 1..Len(ranked) : \E i \in DOMAIN wpc : ranked[j] = unique_dogs[i])
    /\ [][\A i \in DOMAIN wpc :
             /\ Identity(unique_dogs'[i]) = Identity(unique_dogs[i])
             /\ unique_dogs'[i].full_description # unique_dogs[i].full_description =>
                   /\ unique_dogs[i].full_description = ""
                   /\ wpc[i] = "refetch"
                   /\ wpc'[i] = "lookup"
                   /\ unique_dogs'[i].full_description =
                         get_full_description(cache, unique_dogs[i].detail_url)[1]
             /\ ScoreFields(unique_dogs'[i]) # ScoreFields(unique_dogs[i]) =>
                   /\ wpc[i] # "updated"
                   /\ wpc'[i] = "updated"
                   /\ unique_dogs'[i].score = result'[i].score
                   /\ unique_dogs'[i].score_details = result'[i].score_details
       ]_vars

\* a listing returned without description was given the text of its detail page
\* and then its score
C18_Witness ==
    \E i \in DOMAIN wpc :
        /\ wpc[i] = "updated"
        /\ Original(i).full_description = ""
        /\ unique_dogs[i].full_description = "calm"
        /\ unique_dogs[i].name = Original(i).name
        /\ unique_dogs[i].score = 80

\* thread t is in a getter, at "with self.cache_lock", and has not got the lock
InGetter(t) == tpc[t] \in {"get_description", "get_name", "get_score"}

\* thread w is in _save_cache, writing the temp file or renaming it
InDiskIO(w) == tpc[w] \in {"save_write", "save_replace"} /\ cache_lock = w

\* C19: in no reachable state is a thread that executes get_cached_description,
\* get_cached_name or get_cached_score held up while another thread writes or
\* renames the cache file.
C19_ReadsNeverWaitForDisk ==
    \A t, w \in Threads :
        ~(InGetter(t) /\ InDiskIO(w) /\ ~ENABLED (ReadDescription(t) \/ ReadNameOrScore(t)))

\* the listing of scoring future i ended as "Missing description"
Unscorable(i) == result[i].via = "nodesc"

\* C20: a listing without description takes the text of the Fetch Cache when
\* there is one; otherwise, with a detail_url, its detail page is fetched once;
\* with a text it goes on to the cache lookup, without one it ends with score -1
\* and "Missing description", and for such a listing the Scoring Cache is neither
\* read nor written and the evaluator is not invoked.
C20_NeedsDescription ==
    /\ [](\A i \in DOMAIN wpc :
             Unscorable(i) =>
                /\ wpc[i] = "updated"
                /\ unique_dogs[i].score = -1
                /\ unique_dogs[i].score_details = <<"Missing description">>
                /\ unique_dogs[i].full_description = ""
                /\ apiCalls[i] = 0
                /\ remoteCalls[i] = 0)
    /\ [][\A i \in DOMAIN wpc :
             LET u == unique_dogs[i].detail_url
                 cached == get_cached_description(cache, u)
                 page == IF cached # "" THEN cached ELSE Pages(u)
             IN /\ ( /\ wpc[i] = "queued"
                     /\ wpc'[i] # "queued"
                     /\ unique_dogs[i].full_description = "" )
                       => IF cached # "" THEN wpc'[i] = "lookup"
                          ELSE IF u # "" THEN wpc'[i] = "refetch"
                          ELSE wpc'[i] = "updated" /\ Unscorable(i)'
                /\ (wpc[i] = "refetch" /\ wpc'[i] # "refetch")
                       => IF page = "" THEN wpc'[i] = "updated" /\ Unscorable(i)'
                          ELSE /\ wpc'[i] = "lookup"
                               /\ unique_dogs'[i].full_description = page
                /\ wpc'[i] = "refetch" => wpc[i] \in {"queued", "refetch"}
                /\ (Unscorable(i)' /\ ~Unscorable(i))
                       => /\ wpc[i] \in {"queued", "refetch"}
                          /\ cache' = cache
                          /\ cacheFile' = cacheFile
                          /\ apiCalls' = apiCalls
                          /\ remoteCalls' = remoteCalls
       ]_vars

\* a listing with a detail_url and no description ended as "Missing description"
\* after the re-fetch of a page without text, another one without detail_url ended
\* so at once
C20_Witness ==
    /\ loaded = EmptyCache
    /\ \E i, j \in DOMAIN wpc :
          /\ Unscorable(i)
          /\ unique_dogs[i].detail_url = "/b"
          /\ unique_dogs[i].score = -1
          /\ Unscorable(j)
          /\ unique_dogs[j].detail_url = ""

\* ------------------------------------------------- listings without detail_url
\* the listings of dogs that have no detail_url
NoUrl(dogs) == {j \in 1..Len(dogs) : dogs[j].detail_url = ""}

\* C21 as stated: two listings with empty detail_url are duplicates exactly when
\* their lowercase names are equal, and both caches still store and return entries
\* for a listing with empty detail_url: its description is in the Fetch Cache once
\* score_dog_with_gemini has stored it, and the score the evaluator returned for it
\* is found again in the Scoring Cache.
C21_NameOnlyKeying ==
    /\ pc \in {"scoring", "done"} =>
          /\ \A j, k \in NoUrl(unique_dogs) :
                Lower(unique_dogs[j].name) = Lower(unique_dogs[k].name) => j = k
          /\ \A j \in NoUrl(all_dogs) : \E k \in NoUrl(unique_dogs) :
                Lower(unique_dogs[k].name) = Lower(all_dogs[j].name)
    /\ \A i \in DOMAIN wpc :
          unique_dogs[i].detail_url = "" =>
             /\ (wpc[i] # "queued" /\ unique_dogs[i].full_description # "")
                   => get_cached_description(cache, unique_dogs[i].detail_url)
                         = unique_dogs[i].full_description
             /\ (wpc[i] = "updated" /\ result[i].via = "api")
                   => LET e == get_cached_score(cache, unique_dogs[i].detail_url,
                                                CurrentHash)
                      IN e.present /\ e.score = result[i].score

\* ------------------------------------------------------------------ get_page
\* the default of get_page's parameter; no caller passes another value
retries == 3

\* what session.get(url, timeout=30) and response.raise_for_status() can come to
Answers ==
    {"ok", "read_timeout", "connect_timeout", "5xx", "4xx", "reset", "dns",
     "refused"}

\* the exception class raised: requests raises ConnectionError when the connection
\* is refused, reset or the host is not resolved, ConnectTimeout (a subclass of
\* ConnectionError) when connecting takes too long, ReadTimeout when the answer
\* does, and raise_for_status raises HTTPError for every status from 400 to 599
Raised(answer) ==
    CASE answer = "ok" -> "none"
      [] answer \in {"reset", "dns", "refused"} -> "ConnectionError"
      [] answer = "connect_timeout" -> "ConnectTimeout"
      [] answer = "read_timeout" -> "ReadTimeout"
      [] OTHER -> "HTTPError"

\* isinstance(e, requests.exceptions.ConnectionError)
IsConnectionError(e) == e \in {"ConnectionError", "ConnectTimeout"}

\* 2**n
RECURSIVE Pow2(_)
Pow2(n) == IF n = 0 THEN 1 ELSE 2 * Pow2(n - 1)

\* the pages a collector asks for
FetchUrls == {"/a", "/b"}

\* the bot is constructed with an empty cache file, and scrape_all_sources is not
\* running: the program is at the operation named by where
Parked(where) ==
    /\ outputs = [s \in Sources |-> [raises |-> FALSE, dogs |-> <<>>]]
    /\ apiKey = TRUE
    /\ prompt = "tplA"
    /\ loaded = EmptyCache
    /\ cache = loaded
    /\ cacheFile = CompleteFile(loaded)
    /\ tmpFile = NoTmp
    /\ pc = where
    /\ pending = {}
    /\ failed = {}
    /\ all_dogs = <<>>
    /\ unique_dogs = <<>>
    /\ wpc = <<>>
    /\ result = <<>>
    /\ apiCalls = <<>>
    /\ remoteCalls = <<>>
    /\ ranked = <<>>
    /\ cache_lock = 0
    /\ tpc = [t \in Threads |-> "idle"]
    /\ targ = [t \in Threads |-> ""]
    /\ emptyCall = FALSE
    /\ tret = NoRet
    /\ lastSet = [u \in Urls |-> get_cached_description(cache, u)]
    /\ repeatSet = FALSE
    /\ AuxInit

FetchInit == Parked("fetching")

\* self.get_page(url): the call enters the loop with attempt = 0
GetPage(url) ==
    /\ pc = "fetching"
    /\ fetch.ret = "idle"
    /\ fetch' = [ret |-> "running", url |-> url, attempt |-> 0, outcomes |-> <<>>,
                 sleeps |-> <<>>]
    /\ UNCHANGED <<cache, cacheFile, tmpFile, pool, cache_stats, lastScore>>
    /\ UNCHANGED pipeVars
    /\ UNCHANGED threadVars

\* one pass of "for attempt in range(retries)": the request, and the except branch
\* its exception selects
Attempt(answer) ==
    /\ pc = "fetching"
    /\ fetch.ret = "running"
    /\ fetch.attempt < retries
    /\ LET e == Raised(answer)
           tried == [fetch EXCEPT !.outcomes = Append(@, answer)]
       IN fetch' =
             IF e = "none" THEN [tried EXCEPT !.ret = "page"]
             ELSE IF IsConnectionError(e) THEN [tried EXCEPT !.ret = "None"]
             ELSE IF fetch.attempt < retries - 1
             THEN [tried EXCEPT !.sleeps = Append(@, Pow2(fetch.attempt)),
                                !.attempt = @ + 1]
             ELSE [tried EXCEPT !.ret = "None"]
    /\ UNCHANGED <<cache, cacheFile, tmpFile, pool, cache_stats, lastScore>>
    /\ UNCHANGED pipeVars
    /\ UNCHANGED threadVars

FetchNext ==
    \/ \E url \in FetchUrls : GetPage(url)
    \/ \E answer \in Answers : Attempt(answer)

FetchSpec == FetchInit /\ [][FetchNext]_vars

\* the failures the specification calls transient, and those it calls permanent
Transient == {"read_timeout", "connect_timeout", "5xx", "reset"}
Permanent == {"4xx", "dns", "refused"}

\* the delays 2^0, 2^1, ... slept after the first n failed attempts
Backoff(n) == [k \in 1..n |-> Pow2(k - 1)]

\* C22 as stated: as long as every failure of a get_page call is transient (a
\* timeout, a 5xx status, a connection reset), the call makes at most retries (3)
\* attempts, sleeps 2^attempt seconds after each failed attempt but the last,
\* returns the page at the first attempt that succeeds, and returns None only
\* when all 3 attempts have failed.
C22_TransientRetried ==
    LET o == fetch.outcomes
        n == Len(o)
    IN (\A k \in 1..n : o[k] \in Transient \cup {"ok"}) =>
          /\ n <= retries
          /\ fetch.ret = "page" <=> (n > 0 /\ o[n] = "ok")
          /\ fetch.ret = "None" => (n = retries /\ fetch.sleeps = Backoff(n - 1))
          /\ fetch.ret = "page" => fetch.sleeps = Backoff(n - 1)
          /\ fetch.ret = "running" => (n < retries /\ fetch.sleeps = Backoff(n))

\* C23 as stated: an attempt of get_page that meets a permanent failure (a 4xx
\* status, a DNS failure, a refused connection) is the last one: the call returns
\* None there and sleeps no more, so a call whose first attempt fails that way
\* makes exactly one attempt.
C23_PermanentNotRetried ==
    LET o == fetch.outcomes
        n == Len(o)
    IN \A k \in 1..n :
          o[k] \in Permanent =>
             /\ n = k
             /\ fetch.ret = "None"
             /\ Len(fetch.sleeps) = k - 1

\* ----------------------------------------------------------- cache statistics
\* the collector that worker thread t runs: every collector passes its own name
SourceOf(t) == StatCollectors[((t - 1) % Len(StatCollectors)) + 1]

\* stats_inc(source, cached), called by the collector's thread without any lock
stats_inc(stats, source, cached) ==
    LET key == IF source = "" THEN "unknown" ELSE source
        entry == IF stats[key].present THEN stats[key]
                 ELSE [present |-> TRUE, cached |-> 0, fetched |-> 0]
    IN [stats EXCEPT ![key] = IF cached THEN [entry EXCEPT !.cached = @ + 1]
                              ELSE [entry EXCEPT !.fetched = @ + 1]]

StatsInc(t, cached) ==
    /\ pc = "clients"
    /\ tpc[t] = "idle"
    /\ IF cached THEN cache_stats[SourceOf(t)].cached < MaxHits
       ELSE cache_stats[SourceOf(t)].fetched < MaxHits
    /\ cache_stats' = stats_inc(cache_stats, SourceOf(t), cached)
    /\ emptyCall' = FALSE
    /\ tret' = NoRet
    /\ UNCHANGED <<cache, cacheFile, tmpFile, cache_lock, tpc, targ, lastSet,
                   repeatSet, fetch, pool, lastScore>>
    /\ UNCHANGED pipeVars

\* collectors in the collection pool: each stores the pages it fetched in the Fetch
\* Cache and counts its hits and misses
StatsNext ==
    \/ \E t \in Threads : SetDescription(t, "/a", "calm", "Rex")
    \/ \E t \in Threads : SaveAcquire(t)
    \/ \E t \in Threads : SaveOpen(t)
    \/ \E t \in Threads : SaveWrite(t)
    \/ \E t \in Threads : SaveReplace(t)
    \/ \E t \in Threads, cached \in BOOLEAN : StatsInc(t, cached)

StatsSpec == CacheInit /\ [][StatsNext]_vars

\* C24 as stated: every write of the in-memory cache map and its serialization
\* happen under cache_lock, and no other structure shared by the workers is
\* written outside the lock. A step that writes under the lock takes the free lock
\* or is taken by the thread holding it.
C24_LockDiscipline ==
    [][ /\ cache' # cache => cache_lock = 0
        /\ tmpFile' # tmpFile =>
              \E t \in Threads : cache_lock = t /\ tpc[t] # tpc'[t]
        /\ cacheFile' # cacheFile =>
              \E t \in Threads : cache_lock = t /\ tpc[t] # tpc'[t]
        /\ cache_stats' # cache_stats => cache_lock = 0
      ]_vars

\* ------------------------------------------------------- ThreadPoolExecutor
\* the pool of scrape_all_sources gets seven tasks, the pool of
\* _score_dogs_concurrently one per unique listing
NumCollectors == 7
TaskCounts == {NumCollectors} \cup 1..MaxTasks

\* tasks of the pool that a worker thread is executing
Executing == {k \in 1..pool.tasks : pool.state[k] = "running"}
\* tasks submitted that no worker thread has taken yet
Waiting == {k \in 1..pool.tasks : pool.state[k] = "queued"}

PoolInit == Parked("pool")

\* with ThreadPoolExecutor(max_workers=10) as executor, for a loop of n submits
CreatePool(n) ==
    /\ pc = "pool"
    /\ pool.tasks = 0
    /\ pool' = [tasks |-> n, submitted |-> 0, state |-> [k \in 1..n |-> "new"]]
    /\ UNCHANGED <<cache, cacheFile, tmpFile, fetch, cache_stats, lastScore>>
    /\ UNCHANGED pipeVars
    /\ UNCHANGED threadVars

\* executor.submit(...): the work item goes to the queue of the executor
Submit ==
    /\ pc = "pool"
    /\ pool.submitted < pool.tasks
    /\ pool' = [pool EXCEPT !.submitted = @ + 1,
                            !.state[pool.submitted + 1] = "queued"]
    /\ UNCHANGED <<cache, cacheFile, tmpFile, fetch, cache_stats, lastScore>>
    /\ UNCHANGED pipeVars
    /\ UNCHANGED threadVars

\* variant: a thread is started for every work item
StartTask_NoCeiling(k) ==
    /\ pc = "pool"
    /\ k \in Waiting
    /\ \A j \in Waiting : k <= j
    /\ pool' = [pool EXCEPT !.state[k] = "running"]
    /\ UNCHANGED <<cache, cacheFile, tmpFile, fetch, cache_stats, lastScore>>
    /\ UNCHANGED pipeVars
    /\ UNCHANGED threadVars

\* a worker thread takes the oldest work item of the queue; the executor has at
\* most max_workers threads, each executing one item at a time
StartTask(k) ==
    /\ pc = "pool"
    /\ k \in Waiting
    /\ \A j \in Waiting : k <= j
    /\ Cardinality(Executing) < max_workers
    /\ pool' = [pool EXCEPT !.state[k] = "running"]
    /\ UNCHANGED <<cache, cacheFile, tmpFile, fetch, cache_stats, lastScore>>
    /\ UNCHANGED pipeVars
    /\ UNCHANGED threadVars

\* the task returns or raises: its future is done and its thread is free again
FinishTask(k) ==
    /\ pc = "pool"
    /\ k \in Executing
    /\ pool' = [pool EXCEPT !.state[k] = "done"]
    /\ UNCHANGED <<cache, cacheFile, tmpFile, fetch, cache_stats, lastScore>>
    /\ UNCHANGED pipeVars
    /\ UNCHANGED threadVars

PoolNext ==
    \/ \E n \in TaskCounts : CreatePool(n)
    \/ Submit
    \/ \E k \in 1..MaxTasks : StartTask(k)
    \/ \E k \in 1..MaxTasks : FinishTask(k)

PoolSpec == PoolInit /\ [][PoolNext]_vars

\* the main thread goes on submitting, a free worker thread takes a queued item,
\* and every task returns (each network call of a task has a timeout)
PoolFairSpec == PoolSpec /\ WF_vars(PoolNext)

\* C25: in every reachable state at most max_workers (10) tasks of a pool are
\* executing, whatever the number of tasks submitted; a task submitted while 10
\* are executing stays in the queue, and every task of the pool is eventually
\* executed to its end.
C25_BoundedParallelism ==
    /\ [](Cardinality(Executing) <= max_workers)
    /\ [][\A k \in 1..pool.tasks :
             (pool.state[k] = "queued" /\ Cardinality(Executing) = max_workers)
                => pool'.state[k] = "queued"]_vars
    /\ <>(pool.tasks > 0 /\ \A k \in 1..pool.tasks : pool.state[k] = "done")

\* ten tasks are executing and an eleventh waits in the queue
C25_Witness ==
    /\ Cardinality(Executing) = max_workers
    /\ Waiting # {}

\* ------------------------------------------------------------- cached names
\* C26 as stated: a name stored in the Fetch Cache with a description stays what
\* get_cached_name returns as long as no call supplies another non-empty name; the
\* calls of a run of the pipeline supply none, so every name the cache held when
\* the run began is still returned at every point of the run.
C26_NamePreserved ==
    \A u \in Urls :
       get_cached_name(loaded, u) # "" =>
          get_cached_name(cache, u) = get_cached_name(loaded, u)

\* -------------------------------------------------- what the Scoring Cache holds
\* the details of the outcomes that are no evaluation
FailureDetails == FailureLabels \cup {<<"Prompt generation failed">>}

\* C27 as stated: set_cached_score is reached only for a score parsed from an answer
\* of the evaluator: no entry that a run adds to the Scoring Cache holds the
\* outcome of a missing API key, a failed prompt generation, an exception of the
\* evaluator or a missing description.
C27_OnlyEvaluationsCached ==
    \A u \in Urls, h \in Hashes :
       (cache.scores[u][h].present /\ cache.scores[u][h] # loaded.scores[u][h])
          => cache.scores[u][h].score_details \notin FailureDetails

\* ------------------------------------------------------- concurrent cache writes
\* arguments the scoring threads pass to set_cached_score
WriteKeys ==
    {<<"", "hA">>, <<"/a", "">>, <<"/a", "hA">>, <<"/a", "hB">>, <<"/b", "hA">>}
ClientScores == {50}

\* set_cached_score(detail_url, prompt_hash, score, score_details) up to the call
\* of _save_cache: the early return, or the "with self.cache_lock" block
SetScore(t, detail_url, prompt_hash, score) ==
    /\ pc = "clients"
    /\ tpc[t] = "idle"
    /\ emptyCall' = FALSE
    /\ tret' = NoRet
    /\ IF detail_url = "" \/ prompt_hash = ""
       THEN UNCHANGED <<cache, tpc, lastScore>>
       ELSE /\ cache_lock = 0
            /\ cache' = set_cached_score(cache, detail_url, prompt_hash, score,
                                         GeminiDetails(score))
            /\ tpc' = [tpc EXCEPT ![t] = "save_lock"]
            /\ lastScore' = [lastScore EXCEPT ![detail_url][prompt_hash] =
                                [present |-> TRUE, score |-> score,
                                 score_details |-> GeminiDetails(score)]]
    /\ UNCHANGED <<cacheFile, tmpFile, cache_lock, targ, lastSet, repeatSet, fetch,
                   pool, cache_stats>>
    /\ UNCHANGED pipeVars

\* worker threads that write to both caches, as score_dog_with_gemini does: the
\* description without a name, then the score
WriteNext ==
    \/ \E t \in Threads, u \in ClientUrls, x \in ClientTexts :
          SetDescription(t, u, x, "")
    \/ \E t \in Threads, k \in WriteKeys, sc \in ClientScores :
          SetScore(t, k[1], k[2], sc)
    \/ \E t \in Threads : SaveAcquire(t)
    \/ \E t \in Threads : SaveOpen(t)
    \/ \E t \in Threads : SaveWrite(t)
    \/ \E t \in Threads : SaveReplace(t)

WriteSpec == CacheInit /\ [][WriteNext]_vars

\* every call has returned
Quiescent == \A t \in Threads : tpc[t] = "idle"

\* C28: for every interleaving of set_cached_description and set_cached_score
\* calls, once all of them have returned cache.json is the serialization of the
\* in-memory cache, unless the write of the last persist failed; so it is in
\* every run in which no file write fails.
C28_DiskEqualsMemory ==
    (Quiescent /\ tmpFile.state # "partial") => cacheFile = CompleteFile(cache)

\* all calls have returned after a description and two scores were written, and the
\* file holds all three
C28_Witness ==
    /\ Quiescent
    /\ tmpFile = NoTmp
    /\ loaded = EmptyCache
    /\ lastSet["/a"] = "shy"
    /\ lastScore["/a"]["hB"].present
    /\ lastScore["/b"]["hA"].present
    /\ cacheFile.doc.descriptions["/a"].text = "shy"
    /\ cacheFile.doc.scores["/a"]["hB"].score = 50
    /\ cacheFile.doc.scores["/b"]["hA"].score = 50

\* C29: every key of the in-memory cache holds the value of the last write to that
\* key, and a key no call wrote holds what was loaded: writes to different keys
\* (different urls, or one url under different fingerprints) lose nothing of each
\* other, writes to one key leave one of the values written.
C29_NoLostUpdate ==
    /\ \A u \in Urls \ {""} :
          /\ cache.descriptions[u].text = lastSet[u]
          /\ cache.descriptions[u].present <=> lastSet[u] # ""
    /\ \A u \in Urls, h \in Hashes :
          cache.scores[u][h] = IF lastScore[u][h].present THEN lastScore[u][h]
                               ELSE loaded.scores[u][h]

\* the first two calls are under way together, both between their write to memory
\* and their persist: one url holds a score under each of two fingerprints
C29_Witness ==
    /\ \E t1, t2 \in Threads :
          t1 # t2 /\ tpc[t1] = "save_lock" /\ tpc[t2] = "save_lock"
    /\ loaded = EmptyCache
    /\ cacheFile = CompleteFile(loaded)
    /\ tmpFile = NoTmp
    /\ cache.scores["/a"]["hA"].score = 50
    /\ cache.scores["/a"]["hB"].score = 50

\* ------------------------------------------------------ waiting for cache_lock
\* what the setters of LockSpec store
LockTexts == {"calm"}
LockHashes == {"hA"}

\* set_cached_description(detail_url, text, name): the early return, or the thread
\* comes to "with self.cache_lock"
CallSetDescription(t, detail_url, text) ==
    /\ pc = "clients"
    /\ tpc[t] = "idle"
    /\ IF SetDescriptionReturnsEarly(detail_url, text)
       THEN UNCHANGED <<tpc, targ>>
       ELSE /\ tpc' = [tpc EXCEPT ![t] = "set_description"]
            /\ targ' = [targ EXCEPT ![t] = detail_url]
    /\ emptyCall' = SetDescriptionReturnsEarly(detail_url, text)
    /\ tret' = NoRet
    /\ UNCHANGED <<cache, cacheFile, tmpFile, cache_lock, lastSet, repeatSet>>
    /\ UNCHANGED pipeVars
    /\ UNCHANGED auxVars

\* set_cached_description: the block under the lock (acquire, assign the entry,
\* release); the text of the call is first used here
StoreDescription(t, text) ==
    /\ pc = "clients"
    /\ tpc[t] = "set_description"
    /\ cache_lock = 0
    /\ cache' = set_cached_description(cache, targ[t], text, "")
    /\ lastSet' = [lastSet EXCEPT ![targ[t]] = text]
    /\ repeatSet' = (lastSet[targ[t]] = text)
    /\ tpc' = [tpc EXCEPT ![t] = "save_lock"]
    /\ targ' = [targ EXCEPT ![t] = ""]
    /\ emptyCall' = FALSE
    /\ tret' = NoRet
    /\ UNCHANGED <<cacheFile, tmpFile, cache_lock>>
    /\ UNCHANGED pipeVars
    /\ UNCHANGED auxVars

\* set_cached_score(detail_url, prompt_hash, ...): the early return, or the thread
\* comes to "with self.cache_lock"
CallSetScore(t, detail_url, prompt_hash) ==
    /\ pc = "clients"
    /\ tpc[t] = "idle"
    /\ IF detail_url = "" \/ prompt_hash = ""
       THEN UNCHANGED <<tpc, targ>>
       ELSE /\ tpc' = [tpc EXCEPT ![t] = "set_score"]
            /\ targ' = [targ EXCEPT ![t] = detail_url]
    /\ emptyCall' = FALSE
    /\ tret' = NoRet
    /\ UNCHANGED <<cache, cacheFile, tmpFile, cache_lock, lastSet, repeatSet>>
    /\ UNCHANGED pipeVars
    /\ UNCHANGED auxVars

\* set_cached_score: the block under the lock; the fingerprint and the score of the
\* call are first used here
StoreScore(t, prompt_hash, score) ==
    /\ pc = "clients"
    /\ tpc[t] = "set_score"
    /\ cache_lock = 0
    /\ cache' = set_cached_score(cache, targ[t], prompt_hash, score,
                                 GeminiDetails(score))
    /\ lastScore' = [lastScore EXCEPT ![targ[t]][prompt_hash] =
                        [present |-> TRUE, score |-> score,
                         score_details |-> GeminiDetails(score)]]
    /\ tpc' = [tpc EXCEPT ![t] = "save_lock"]
    /\ targ' = [targ EXCEPT ![t] = ""]
    /\ emptyCall' = FALSE
    /\ tret' = NoRet
    /\ UNCHANGED <<cacheFile, tmpFile, cache_lock, lastSet, repeatSet, fetch, pool,
                   cache_stats>>
    /\ UNCHANGED pipeVars

\* the steps by which thread t goes on with the call it is in
Proceed(t) ==
    \/ ReadDescription(t)
    \/ ReadNameOrScore(t)
    \/ \E x \in LockTexts : StoreDescription(t, x)
    \/ \E h \in LockHashes, sc \in ClientScores : StoreScore(t, h, sc)
    \/ SaveAcquire(t)
    \/ SaveOpen(t)
    \/ SaveWrite(t)
    \/ SaveReplace(t)

\* worker threads calling the getters and the setters of both caches
LockNext ==
    \/ \E t \in Threads, u \in ClientUrls : GetDescription(t, u)
    \/ \E t \in Threads, u \in ClientUrls : GetName(t, u)
    \/ \E t \in Threads, u \in ClientUrls, h \in ClientHashes : GetScore(t, u, h)
    \/ \E t \in Threads, u \in ClientUrls, x \in LockTexts \cup {""} :
          CallSetDescription(t, u, x)
    \/ \E t \in Threads, u \in ClientUrls, h \in ClientHashes : CallSetScore(t, u, h)
    \/ \E t \in Threads : Proceed(t)

\* the bot starts without cache file
LockInit == CacheInit /\ loaded = EmptyCache

LockSpec == LockInit /\ [][LockNext]_vars

\* a thread that is in a call keeps running, and a thread that waits for cache_lock
\* gets it at some time when the lock is released again and again
LockFairSpec == LockSpec /\ \A t \in Threads : SF_vars(Proceed(t))

\* the positions at which a thread holds cache_lock
InsideSave == {"save_open", "save_write", "save_replace"}

====
